---- MODULE Spec2Model ----
(***************************************************************************)
(* Line-following robot: PID controller (PID.py), reflectance array        *)
(* (reflective_array_subsystem.py), motor driver (motor_2_channel.py),     *)
(* fork maneuvers (fork.py), the T-turn follower (t_turn.py) and the track  *)
(* sequencer (robot_main.py).                                              *)
(*                                                                         *)
(* Numbers.  The program computes with Python floats.  The model computes  *)
(* with decimal fixed point: the integer x stands for x / ONE, ONE = 10^4, *)
(* so every literal of the program (0.0001 .. 200.0) is exact.  Products   *)
(* and quotients are rounded toward zero to 4 decimals (Mul, Div); sums,   *)
(* differences, comparisons and clamps are exact.  Times are seconds in    *)
(* the same representation (1 ms = 10).                                    *)
(***************************************************************************)
EXTENDS Integers, Sequences, FiniteSets, TLC

VARIABLES
    pid,     \* the PID instance under test                  (PID.py)
    ref,     \* a PID constructed anew at the last construct/reset, fed the same inputs
    obs,     \* what the caller of pid saw on the latest call (inputs, outputs)
    arr,     \* the ReflectiveArray instance     (reflective_array_subsystem.py)
    aobs,    \* what the caller of arr saw on the latest call
    drv,     \* the MotorDriver instance                  (motor_2_channel.py)
    sq,      \* run_robot's locals and its position            (robot_main.py)
    sobs,    \* what the latest loop iteration of run_robot did
    fk,      \* the fork maneuver being run and its position            (fork.py)
    dobs,    \* the latest call on a MotorDriver and what it computed
    enc,     \* a SimpleEncoder and its latest read_rpm() call
    tt,      \* the T-turn follower's locals and its latest iteration (t_turn.py)
    ft       \* run_fork_test's locals and its latest iteration          (fork.py)

pidVars == <<pid, ref, obs>>
arrVars == <<arr, aobs>>
seqVars == <<drv, sq, sobs>>
vars == <<pidVars, arrVars, seqVars, fk, dobs, enc, tt, ft>>

(***************************************************************************)
(* Fixed point                                                             *)
(***************************************************************************)
ONE == 10000

Abs(x) == IF x < 0 THEN -x ELSE x
Sgn(x) == IF x < 0 THEN -1 ELSE IF x > 0 THEN 1 ELSE 0

\* |a|*|b| / ONE rounded down, computed in parts so that no intermediate
\* exceeds the result by more than a factor ONE.
MulMag(a, b) ==
    LET a1 == a \div ONE  a0 == a % ONE
        b1 == b \div ONE  b0 == b % ONE
    IN  a1 * b1 * ONE + a1 * b0 + a0 * b1 + (a0 * b0) \div ONE

\* float product a*b
Mul(a, b) == Sgn(a) * Sgn(b) * MulMag(Abs(a), Abs(b))

\* |a|*ONE / |b| rounded down, b # 0
DivMag(a, b) == (a \div b) * ONE + ((a % b) * ONE) \div b

\* float quotient a/b, b # 0
Div(a, b) == Sgn(a) * Sgn(b) * DivMag(Abs(a), Abs(b))

Min(a, b) == IF a < b THEN a ELSE b
Max(a, b) == IF a > b THEN a ELSE b

(***************************************************************************)
(* PID.py                                                                  *)
(***************************************************************************)
\* PID.__init__.  integral_limit=None is has_limit = FALSE.
PIDNew(kp, ki, kd, has_limit, integral_limit) ==
    [kp |-> kp, ki |-> ki, kd |-> kd,
     has_limit |-> has_limit, integral_limit |-> integral_limit,
     integral |-> 0, prev_error |-> 0, first |-> TRUE]

\* PID.reset (the mutant keeps the first-call flag)
PIDResetKeepsFirst(p) == [p EXCEPT !.integral = 0, !.prev_error = 0]

PIDReset(p) == [p EXCEPT !.integral = 0, !.prev_error = 0, !.first = TRUE]

\* the integral clamp of PID.update, lines 22-26
PIDClampOneSided(p, i) ==
    IF p.has_limit /\ i > p.integral_limit THEN p.integral_limit ELSE i

PIDClamp(p, i) ==
    IF ~p.has_limit THEN i
    ELSE IF i > p.integral_limit THEN p.integral_limit
    ELSE IF i < -p.integral_limit THEN -p.integral_limit
    ELSE i

\* the value PID.update leaves in _prev_error (the mutant stores it only on
\* the branch that computes a derivative)
PIDPrevErrorSkipsSuppressed(p, error, dt) ==
    IF p.first \/ dt <= 0 THEN p.prev_error ELSE error

PIDPrevError(p, error, dt) == error

\* PID.update: the new state and the returned output
PIDUpdate(p, setpoint, measurement, dt) ==
    LET error      == setpoint - measurement
        integral   == PIDClamp(p, p.integral + Mul(error, dt))
        suppressed == p.first \/ dt <= 0
        derivative == IF suppressed THEN 0 ELSE Div(error - p.prev_error, dt)
    IN  [pid |-> [p EXCEPT !.integral = integral,
                           !.first = IF suppressed THEN FALSE ELSE p.first,
                           !.prev_error = PIDPrevError(p, error, dt)],
         out |-> Mul(p.kp, error) + Mul(p.ki, integral) + Mul(p.kd, derivative)]

(***************************************************************************)
(* reflective_array_subsystem.py                                           *)
(***************************************************************************)
NUM_SENSORS == 8
Sensors == 1..NUM_SENSORS

RECURSIVE SeqSum(_)
SeqSum(s) == IF s = <<>> THEN 0 ELSE Head(s) + SeqSum(Tail(s))

\* ReflectiveArray.__init__.  ema_alpha=None is has_ema = FALSE.
ArrNew(line_high, has_ema, ema_alpha) ==
    [line_high |-> line_high, has_ema |-> has_ema, ema_alpha |-> ema_alpha,
     min_vals |-> [i \in Sensors |-> 1], max_vals |-> [i \in Sensors |-> 0],
     last_error |-> 0, filtered_error |-> 0, bar_hits |-> 0]

\* read_calibrated: raw is what read_raw() returns, one boolean per pin.
\* The frame is a list of ints 0/1, 1 = black.
CalibratedVals(a, raw) ==
    [i \in Sensors |-> IF a.line_high THEN (IF raw[i] THEN 1 ELSE 0)
                                      ELSE (IF raw[i] THEN 0 ELSE 1)]

\* (the mutant keeps the range of the latest frame only)
ReadCalibratedNarrows(a, raw) ==
    LET vals == CalibratedVals(a, raw)
    IN  [arr |-> [a EXCEPT !.min_vals = vals, !.max_vals = vals], vals |-> vals]

ReadCalibrated(a, raw) ==
    LET vals == CalibratedVals(a, raw)
    IN  [arr |-> [a EXCEPT
                    !.min_vals = [i \in Sensors |->
                                    IF vals[i] < a.min_vals[i] THEN vals[i] ELSE a.min_vals[i]],
                    !.max_vals = [i \in Sensors |->
                                    IF vals[i] > a.max_vals[i] THEN vals[i] ELSE a.max_vals[i]]],
         vals |-> vals]

\* get_line_error, line 89 (the mutant centres the weights on sensor 5)
weightsOffCentre == <<-4, -3, -2, -1, 0, 1, 2, 3>>

weights == <<-4, -3, -2, -1, 1, 2, 3, 4>>

WeightedNum(vals) == SeqSum([i \in Sensors |-> IF vals[i] # 0 THEN weights[i] ELSE 0])
ActiveDen(vals) == SeqSum([i \in Sensors |-> IF vals[i] # 0 THEN 1 ELSE 0])

\* the error get_line_error uses on a frame with no active sensor (the mutant
\* snaps to straight ahead)
LostLineErrorZero(a) == 0

LostLineError(a) == a.last_error

\* get_line_error: the new state and the returned error
GetLineError(a, raw) ==
    LET rc  == ReadCalibrated(a, raw)
        num == WeightedNum(rc.vals)
        den == ActiveDen(rc.vals)
        err == IF den = 0 THEN LostLineError(a)
               ELSE Div(Div(num * ONE, den * ONE), 4 * ONE)
        a1  == [rc.arr EXCEPT !.last_error = IF den = 0 THEN a.last_error ELSE err]
        flt == Mul(a.ema_alpha, err) + Mul(ONE - a.ema_alpha, a.filtered_error)
    IN  IF a.has_ema
        THEN [arr |-> [a1 EXCEPT !.filtered_error = flt], ret |-> flt]
        ELSE [arr |-> a1, ret |-> err]

\* black_count
BlackCount(a, raw) ==
    LET rc == ReadCalibrated(a, raw)
    IN  [arr |-> rc.arr, ret |-> SeqSum(rc.vals)]

\* is_black_bar
IsBlackBar(a, raw, threshold) ==
    LET bc == BlackCount(a, raw)
    IN  [arr |-> bc.arr, ret |-> bc.ret >= threshold]

\* reset_bar_detector
ResetBarDetector(a) == [a EXCEPT !.bar_hits = 0]

\* the counter is_black_bar_confirmed keeps on a frame that is no bar (the
\* mutant leaks one hit instead of dropping them all)
BarHitsOnMissLeaky(hits) == IF hits > 0 THEN hits - 1 ELSE 0

BarHitsOnMiss(hits) == 0

\* is_black_bar_confirmed
IsBlackBarConfirmed(a, raw, threshold, required_hits) ==
    LET ib   == IsBlackBar(a, raw, threshold)
        hits == IF ib.ret THEN a.bar_hits + 1 ELSE BarHitsOnMiss(a.bar_hits)
    IN  [arr |-> [ib.arr EXCEPT !.bar_hits = hits], ret |-> hits >= required_hits]

(***************************************************************************)
(* motor_2_channel.py: MotorDriver                                         *)
(*                                                                         *)
(* A timestamp t kept by the program (last_loop_time, last_time, ...) is   *)
(* held as its age, time.monotonic() - t, which is all the program reads.  *)
(* SimpleEncoder.read_rpm() is an input: the rate each encoder reports.    *)
(***************************************************************************)
MAX_RPM == 2000000          \* 200.0
kp_rpm == 30                \* 0.003
ki_rpm == 50                \* 0.005
kd_rpm == 1                 \* 0.0001
RPM_INTEGRAL_LIMIT == 3000  \* 0.3
MIN_LOOP_DT == 10           \* 0.001
PWM_FULL == 65535

\* MotorDriver.__init__
DrvNew ==
    [pid_l |-> PIDNew(kp_rpm, ki_rpm, kd_rpm, TRUE, RPM_INTEGRAL_LIMIT),
     pid_r |-> PIDNew(kp_rpm, ki_rpm, kd_rpm, TRUE, RPM_INTEGRAL_LIMIT),
     dir_l |-> FALSE, pwm_l |-> 0, dir_r |-> FALSE, pwm_r |-> 0,
     loop_age |-> 0]

\* set_raw_duty: the clamped duty, the PWM duty cycle and the direction pin
ClampDuty(duty) == Max(-ONE, Min(ONE, duty))
SpeedInt(duty) == (Abs(ClampDuty(duty)) * PWM_FULL) \div ONE
DirPin(duty) == ~(ClampDuty(duty) >= 0)

SetRawDuty(d, motor_char, duty) ==
    IF motor_char = "L"
    THEN [d EXCEPT !.dir_l = DirPin(duty), !.pwm_l = SpeedInt(duty)]
    ELSE IF motor_char = "R"
    THEN [d EXCEPT !.dir_r = DirPin(duty), !.pwm_r = SpeedInt(duty)]
    ELSE d

\* set_speeds, lines 150-151 and 168-169: the target rate and the feed-forward
\* term made from an argument
TargetRpm(input) == Mul(input, MAX_RPM)
FeedForward(input) == input

\* set_speeds(left_input, right_input); raw_rpm_l, raw_rpm_r are what the two
\* read_rpm() calls return
SetSpeeds(d, left_input, right_input, raw_rpm_l, raw_rpm_r) ==
    LET dt        == IF d.loop_age <= 0 THEN MIN_LOOP_DT ELSE d.loop_age
        target_l  == TargetRpm(left_input)
        target_r  == TargetRpm(right_input)
        current_l == IF left_input >= 0 THEN raw_rpm_l ELSE -raw_rpm_l
        current_r == IF right_input >= 0 THEN raw_rpm_r ELSE -raw_rpm_r
        ul        == PIDUpdate(d.pid_l, target_l, current_l, dt)
        ur        == PIDUpdate(d.pid_r, target_r, current_r, dt)
        d1        == [d EXCEPT !.loop_age = 0, !.pid_l = ul.pid, !.pid_r = ur.pid]
    IN  SetRawDuty(SetRawDuty(d1, "L", FeedForward(left_input) + ul.out),
                   "R", FeedForward(right_input) + ur.out)

\* stop()
Stop(d) ==
    LET d1 == SetRawDuty(SetRawDuty(d, "L", 0), "R", 0)
    IN  [d1 EXCEPT !.pid_l = PIDReset(d.pid_l), !.pid_r = PIDReset(d.pid_r)]

\* time.sleep(t) and every other passage of time, as the driver sees it
DrvElapse(d, t) == [d EXCEPT !.loop_age = @ + t]

\* an entry of the record of calls made on the motor port: the call, its
\* arguments and the PWM duty cycles it left on the two channels
CmdSetSpeeds(d, l, r) ==
    [op |-> "set_speeds", left |-> l, right |-> r, pwm_l |-> d.pwm_l, pwm_r |-> d.pwm_r]
CmdStop(d) ==
    [op |-> "stop", left |-> 0, right |-> 0, pwm_l |-> d.pwm_l, pwm_r |-> d.pwm_r]

(***************************************************************************)
(* robot_main.py: configuration and helpers                                *)
(***************************************************************************)
KP == 7500                  \* 0.75
KI == 100                   \* 0.01
KD == 700                   \* 0.07
BASE_SPEED == 1500          \* 0.15
MAX_DT == 500               \* 0.05
MAX_CORRECTION == 4500      \* 0.45
BAR_HITS_REQUIRED == 3
BAR_CLEAR_TIME == 6000      \* 0.6
START_CLEAR_TIME == 1000    \* 0.1
BAR_THRESH == 6000          \* 0.60
BAR_COUNT_THRESH == 4
GAP_THRESH == 1000          \* 0.10
TRANSITION_HITS == 5        \* the literal of "if bar_hits >= 5"
DEBUG_PERIOD == 5000        \* 0.5
LOOP_SLEEP == 10            \* 0.001

TRACK_SEQUENCE == <<
    [name |-> "SERPENTINE",   action |-> "None",               gaps_allowed |-> FALSE],
    [name |-> "STRAIGHTAWAY", action |-> "None",               gaps_allowed |-> TRUE],
    [name |-> "DO_TTURN",     action |-> "run_t_turns",        gaps_allowed |-> FALSE],
    [name |-> "DO_FORK",      action |-> "do_fork_action",     gaps_allowed |-> FALSE],
    [name |-> "FORK_RETURN",  action |-> "fork_return_action", gaps_allowed |-> FALSE],
    [name |-> "DO_TTURN",     action |-> "run_t_turns",        gaps_allowed |-> FALSE],
    [name |-> "STRAIGHTAWAY", action |-> "None",               gaps_allowed |-> TRUE],
    [name |-> "SERPENTINE",   action |-> "None",               gaps_allowed |-> FALSE],
    [name |-> "END_SERP_RET", action |-> "None",               gaps_allowed |-> FALSE],
    [name |-> "FORK_RETURN",  action |-> "fork_return_action", gaps_allowed |-> FALSE] >>

\* serpentine.get_params() and straight_away.get_params(); no module imports
\* either file
serpentine_get_params == [kp |-> 4000, ki |-> 100, kd |-> 550, speed |-> 4500]
straight_away_get_params == [kp |-> 8500, ki |-> 0, kd |-> 1200, speed |-> 6000]

\* TRACK_SEQUENCE[i] with Python's 0-based index
Track(i) == TRACK_SEQUENCE[i + 1]

current_frame_is_bar(vals) ==
    Cardinality({i \in Sensors : vals[i] * ONE > BAR_THRESH}) >= BAR_COUNT_THRESH

is_line_lost(vals) == \A i \in Sensors : vals[i] * ONE < GAP_THRESH

\* step 4 of the loop, "Bar Logic (Leaky Bucket)" (the mutant drops every hit
\* on a miss)
LeakyBucketResets(bar_hits, is_bar) == IF is_bar THEN bar_hits + 1 ELSE 0

LeakyBucket(bar_hits, is_bar) ==
    IF is_bar THEN bar_hits + 1
    ELSE IF bar_hits - 1 < 0 THEN 0 ELSE bar_hits - 1

\* lines 310-311 (the mutant clamps at 0.5)
ClampCorrectionLoose(c) ==
    IF c > MAX_CORRECTION + 500 THEN MAX_CORRECTION + 500
    ELSE IF c < -(MAX_CORRECTION + 500) THEN -(MAX_CORRECTION + 500)
    ELSE c

ClampCorrection(c) ==
    IF c > MAX_CORRECTION THEN MAX_CORRECTION
    ELSE IF c < -MAX_CORRECTION THEN -MAX_CORRECTION
    ELSE c

\* "if dt > MAX_DT: dt = MAX_DT" (the mutant passes dt on as measured)
ClampDtOff(dt) == dt

ClampDt(dt) == IF dt > MAX_DT THEN MAX_DT ELSE dt

(***************************************************************************)
(* fork.py                                                                 *)
(***************************************************************************)
PIVOT_SPEED == 3000         \* 0.3
PIVOT_TIME == 2500          \* 0.25
PIVOT_SETTLE == 1000        \* 0.1
FORK_SEE_THRESH == 5000     \* 0.5
JOLT_SPEED == 3500          \* 0.35
JOLT_TIMEOUT == 10000       \* 1.0
JOLT_SETTLE == 2000         \* 0.2
FORK_TURN_SPEED == 4000     \* 0.4
FORK_TURN_TIME == 4000      \* 0.4
FORK_FORWARD_TIME == 2000   \* 0.2
ALIGN_TIMEOUT == 20000      \* 2.0
ALIGN_SPEED == 1500         \* 0.15
SPIN_SPEED == 4000          \* 0.4
SPIN_BLIND_TIME == 4000     \* 0.4
SPIN_TIMEOUT == 25000       \* 2.5
SPIN_SEE_THRESH == 6000     \* 0.6
SPIN_SETTLE == 2000         \* 0.2

\* "any(v > 0.5 for v in vals)" (the mutant looks at the two centre sensors
\* only)
see_line_centre(vals) == \E i \in {4, 5} : vals[i] * ONE > FORK_SEE_THRESH

see_line(vals) == \E i \in Sensors : vals[i] * ONE > FORK_SEE_THRESH

\* standard_align, lines 80-81: vals[0] and vals[7]
left_black(vals) == vals[1] * ONE > FORK_SEE_THRESH
right_black(vals) == vals[8] * ONE > FORK_SEE_THRESH

\* turn_180, line 130: vals[3] and vals[4]
centre_black(vals) == vals[4] * ONE > SPIN_SEE_THRESH \/ vals[5] * ONE > SPIN_SEE_THRESH

\* no maneuver running.  wrapper is the robot_main wrapper being run, if any;
\* last_choice is robot_main's global LAST_FORK_CHOICE, a name that is not
\* bound until do_fork_action assigns it; rpm is what the encoders report
\* during the maneuver; clear and exit tell how the last polling loop ended
ForkIdle == [pc |-> "idle", fn |-> "none", came_from |-> "none", cmds |-> <<>>,
             jolt_age |-> 0, raised |-> FALSE, ret |-> "none",
             wrapper |-> "none", last_choice |-> "unbound", rpm |-> 0,
             clear |-> FALSE, exit |-> "none", calls |-> 0]

(***************************************************************************)
(* motor_2_channel.py: SimpleEncoder                                       *)
(* The pulse counter is held as the pulses counted since the previous read, *)
(* which is all read_rpm() uses of it.                                     *)
(***************************************************************************)
COUNTS_PER_REV == 12
ENC_TIMEOUT == 5000         \* 0.5

\* SimpleEncoder.__init__; has_counter is _HAS_COUNTIO, pin the pin's value
EncNew(has_counter, pin) ==
    [has_counter |-> has_counter, last_time_age |-> 0, current_rpm |-> 0,
     last_state |-> pin, count |-> 0]

\* lines 56-57 and 71-72: the rate for pulses counted over dt
EncRate(pulses, dt) == Div(Div(pulses * ONE, COUNTS_PER_REV * ONE), dt) * 60

\* lines 59-60 and 75-76: the rate kept on a read without a pulse (the mutant
\* never times out)
EncNoPulseHolds(e, dt) == e.current_rpm

EncNoPulse(e, dt) == IF dt > ENC_TIMEOUT THEN 0 ELSE e.current_rpm

\* read_rpm(), t after the previous read: delta is the counter's advance
\* (countio build), val the pin's value (polling build)
ReadRpm(e, t, delta, val) ==
    LET dt    == e.last_time_age + t
        count == IF e.has_counter THEN delta
                 ELSE IF val /\ ~e.last_state THEN e.count + 1 ELSE e.count
        e1    == IF e.has_counter THEN e ELSE [e EXCEPT !.last_state = val]
    IN  IF count > 0
        THEN [e1 EXCEPT !.current_rpm = EncRate(count, dt), !.count = 0,
                        !.last_time_age = 0]
        ELSE [e1 EXCEPT !.current_rpm = EncNoPulse(e, dt), !.last_time_age = dt]

\* what a read is seen to do: the pulses it found, the time dt since the last
\* read that found any (or since construction), the rate returned
NoEncRead == [reads |-> 0, pulses |-> 0, dt |-> 0, idle |-> 0, ret |-> 0, prev_ret |-> 0]
EncIdle == [st |-> EncNew(TRUE, FALSE), ob |-> NoEncRead]

\* t_turn.run_line_follower not running
TtIdle == [pc |-> "off"]

(***************************************************************************)
(* t_turn.py: configuration and the helpers of run_line_follower           *)
(***************************************************************************)
TURN_SPEED == 4000              \* 0.4
TT_BASE_SPEED == 3500           \* BASE_SPEED of t_turn.py, 0.35
CORNER_SENSITIVITY == 8000      \* 0.8
ALL_WHITE_THRESHOLD == 2000     \* 0.2
MEMORY_THRESHOLD == 5000        \* 0.5
HARD_TURN_DURATION == 3000      \* 0.3 s
\* the gains run_t_turns gives its PID
TT_KP == 4000
TT_KI == 100
TT_KD == 550

\* a call of the motor driver: t_turn.py has its own driver module, of which
\* only the calls are modelled
TtCmd(op, l, r) == [op |-> op, left |-> l, right |-> r]
\* the pivot of apply_turn_lock, trigger_hard_turn_if_needed and
\* handle_lost_line: -1 is left
PivotCmd(dir) ==
    IF dir = -1 THEN TtCmd("set_speeds", -TURN_SPEED, TURN_SPEED)
    ELSE TtCmd("set_speeds", TURN_SPEED, -TURN_SPEED)

MaxReflection(vals) == CHOOSE m \in {vals[i] : i \in Sensors} : \A j \in Sensors : vals[j] <= m

\* read_line_state for the pins raw, and raw_mem at the get_line_error() call
ReadLineState(a, last_valid_error, raw, raw_mem) ==
    LET rc == ReadCalibrated(a, raw)
        max_reflection == MaxReflection(rc.vals) * ONE
        ge == GetLineError(rc.arr, raw_mem)
        remember == max_reflection > MEMORY_THRESHOLD
    IN  [vals |-> rc.vals,
         is_lost |-> max_reflection < ALL_WHITE_THRESHOLD,
         arr |-> IF remember THEN ge.arr ELSE rc.arr,
         last_valid_error |-> IF remember THEN ge.ret ELSE last_valid_error]

\* apply_turn_lock, line 122: now < turn_lock_until, for remaining =
\* turn_lock_until - now (the mutant never holds the lock)
LockHoldsNever(remaining) == FALSE

LockHolds(remaining) == remaining > 0

\* trigger_hard_turn_if_needed: the direction triggered, 0 for none
TriggerDir(vals) ==
    IF vals[1] * ONE > CORNER_SENSITIVITY THEN -1
    ELSE IF vals[8] * ONE > CORNER_SENSITIVITY THEN 1
    ELSE 0

\* handle_lost_line: the direction of the spin
LostDir(last_valid_error) == IF last_valid_error < 0 THEN -1 ELSE 1

NoTtTick == [branch |-> "none", cmd |-> TtCmd("none", 0, 0),
             in_window |-> FALSE, window_dir |-> 0,
             vals |-> [i \in Sensors |-> 0], last_valid_error |-> 0,
             pid_updated |-> FALSE, retriggered |-> FALSE]

\* run_line_follower, lines 159-163: the locals as the loop is entered.
\* turn_lock_until is kept as the time left until it, 0 once it is past;
\* trig_dir and trig_age record the last trigger and the time since it.
TtStart(has_button) ==
    [pc |-> "run", has_button |-> has_button,
     last_valid_error |-> 0, last_time_age |-> 0,
     turn_lock_until |-> 0, turn_lock_direction |-> 0,
     trig_dir |-> 0, trig_age |-> HARD_TURN_DURATION,
     ticks |-> 0, ob |-> NoTtTick]

(***************************************************************************)
(* fork.py: run_fork_test                                                  *)
(***************************************************************************)
\* lines 139-146
FT_KP == 4000
FT_KI == 100
FT_KD == 550
FT_BASE_SPEED == 2000          \* BASE_SPEED of run_fork_test, 0.20
MARKER_DEBOUNCE == 20000        \* 2.0 s
FT_DENSITY_THRESH == 6000       \* 0.6
FT_DENSITY_COUNT == 6
FT_OUTER_THRESH == 5000         \* 0.5

\* lines 159-163: is_intersection for the frame vals
FtIsIntersection(vals) ==
    LET black_count == Cardinality({i \in Sensors : vals[i] * ONE > FT_DENSITY_THRESH})
    IN  \/ vals[1] * ONE > FT_OUTER_THRESH /\ vals[8] * ONE > FT_OUTER_THRESH
        \/ black_count >= FT_DENSITY_COUNT

\* run_fork_test, lines 139-150: the locals as the loop is entered.  A local
\* that no statement has assigned yet is unbound; last_time and
\* last_marker_time are not assigned before the loop.  ob is what the latest
\* iteration did.
FtStart ==
    [pc |-> "run", last_choice |-> "None", at_end_zone |-> FALSE,
     last_time_bound |-> FALSE, last_time_age |-> 0,
     last_marker_bound |-> FALSE, last_marker_age |-> 0,
     iterations |-> 0,
     ob |-> [branch |-> "none", is_intersection |-> FALSE, unassigned |-> "none"]]

FtIdle == [FtStart EXCEPT !.pc = "off"]

(***************************************************************************)
(* A PID driven by an arbitrary caller                                     *)
(***************************************************************************)
MaxUpdates == 3

\* (kp, ki, kd): the steering gains of robot_main.py and the wheel-rate gains
\* of motor_2_channel.py
GainSets == { <<7500, 100, 700>>, <<30, 50, 1>> }
\* (has_limit, integral_limit): None, 0.0, 0.08, 0.3
LimitSets == { <<FALSE, 0>>, <<TRUE, 0>>, <<TRUE, 800>>, <<TRUE, 3000>> }
Setpoints == { 0, 5000 }
Measurements == { -5000, 10000 }
DtValues == { -100, 0, 500 }

NoCall == [calls |-> 0, total |-> 0, setpoint |-> 0, measurement |-> 0, dt |-> 0,
           prev_setpoint |-> 0, prev_measurement |-> 0, prev_dt |-> 0,
           out |-> 0, ref_out |-> 0]

NoArrCall == [reads |-> 0, op |-> "none", raw |-> [i \in Sensors |-> FALSE],
              lost |-> FALSE, ret |-> 0, prev_ret |-> 0, last_valid |-> 0,
              required_hits |-> 0, confirmed |-> FALSE, run |-> 0, fires |-> 0,
              vals |-> [i \in Sensors |-> 0]]

\* the parts of the state a specification does not use stay as constructed
PidIdle == /\ pid = PIDNew(0, 0, 0, FALSE, 0)
           /\ ref = PIDNew(0, 0, 0, FALSE, 0)
           /\ obs = NoCall
ArrIdle == /\ arr = ArrNew(TRUE, FALSE, 0)
           /\ aobs = NoArrCall

NoDrvCall == [calls |-> 0, op |-> "none", left |-> 0, right |-> 0,
              target_l |-> 0, target_r |-> 0, ff_l |-> 0, ff_r |-> 0]

NoTick == [branch |-> "none", raw |-> [i \in Sensors |-> FALSE],
           is_bar |-> FALSE, lost |-> FALSE, hits_before |-> 0, hits_mid |-> 0,
           dt |-> 0, correction |-> 0, cmds |-> <<>>, advances |-> 0, scen |-> 0,
           blind_time |-> 0]

\* run_robot, lines 187-198: the locals as the loop is entered
SeqStart(has_button, enc_rpm) ==
    [pc |-> "run", has_button |-> has_button, enc_rpm |-> enc_rpm,
     ntracks |-> Len(TRACK_SEQUENCE), track_index |-> 0, current_track |-> 0,
     gaps_allowed |-> Track(0).gaps_allowed, bar_hits |-> 0,
     last_time_age |-> 0, last_debug_age |-> 0, seg_ticks |-> 0]

SeqIdle == /\ drv = DrvNew
           /\ sq = [SeqStart(FALSE, 0) EXCEPT !.pc = "off"]
           /\ sobs = NoTick

InitPID ==
    /\ ft = FtIdle
    /\ \E g \in GainSets, l \in LimitSets :
          /\ pid = PIDNew(g[1], g[2], g[3], l[1], l[2])
          /\ ref = PIDNew(g[1], g[2], g[3], l[1], l[2])
    /\ obs = NoCall
    /\ ArrIdle
    /\ SeqIdle
    /\ fk = ForkIdle
    /\ dobs = NoDrvCall
    /\ enc = EncIdle
    /\ tt = TtIdle

\* pid.update(sp, m, dt), and the same call on the reference instance
Update(sp, m, dt) ==
    /\ obs.total < MaxUpdates
    /\ LET r == PIDUpdate(pid, sp, m, dt)
           q == PIDUpdate(ref, sp, m, dt)
       IN  /\ pid' = r.pid
           /\ ref' = q.pid
           /\ obs' = [calls |-> obs.calls + 1, total |-> obs.total + 1,
                      setpoint |-> sp, measurement |-> m, dt |-> dt,
                      prev_setpoint |-> obs.setpoint,
                      prev_measurement |-> obs.measurement,
                      prev_dt |-> obs.dt,
                      out |-> r.out, ref_out |-> q.out]
    /\ UNCHANGED <<arrVars, seqVars, fk, dobs, enc, tt, ft>>

\* pid.reset(); the reference is constructed anew from the same arguments
Reset ==
    /\ pid' = PIDReset(pid)
    /\ ref' = PIDNew(ref.kp, ref.ki, ref.kd, ref.has_limit, ref.integral_limit)
    /\ obs' = [NoCall EXCEPT !.total = obs.total]
    /\ UNCHANGED <<arrVars, seqVars, fk, dobs, enc, tt, ft>>

NextPID ==
    \/ \E sp \in Setpoints, m \in Measurements, dt \in DtValues : Update(sp, m, dt)
    \/ Reset

SpecPID == InitPID /\ [][NextPID]_vars

(***************************************************************************)
(* A ReflectiveArray driven by an arbitrary caller                         *)
(***************************************************************************)
MaxReads == 4
MaxFullReads == 1

\* ema_alpha: None, 0.35 (the docstring's example)
EmaSets == { <<FALSE, 0>>, <<TRUE, 3500>> }
\* required_hits of is_black_bar_confirmed: 2 and the default 3
RequiredHitsSet == { 2, 3 }
\* threshold of is_black_bar / is_black_bar_confirmed: the default
DEFAULT_BAR_THRESHOLD == 6

\* pin patterns: the pins that read True
PinSets == { {}, Sensors, {1}, {4, 5}, {2, 3, 4, 5, 6, 7} }
RawFrames == { [i \in Sensors |-> i \in S] : S \in PinSets }
AllRawFrames == [Sensors -> BOOLEAN]

InitArr ==
    /\ ft = FtIdle
    /\ \E lh \in BOOLEAN, e \in EmaSets, n \in RequiredHitsSet :
          /\ arr = ArrNew(lh, e[1], e[2])
          /\ aobs = [NoArrCall EXCEPT !.required_hits = n]
    /\ PidIdle
    /\ SeqIdle
    /\ fk = ForkIdle
    /\ dobs = NoDrvCall
    /\ enc = EncIdle
    /\ tt = TtIdle

InitFrames ==
    /\ ft = FtIdle
    /\ \E lh \in BOOLEAN : arr = ArrNew(lh, FALSE, 0)
    /\ aobs = NoArrCall
    /\ PidIdle
    /\ SeqIdle
    /\ fk = ForkIdle
    /\ dobs = NoDrvCall
    /\ enc = EncIdle
    /\ tt = TtIdle

\* sensors.read_calibrated()
ReadCall(raw) ==
    /\ arr' = ReadCalibrated(arr, raw).arr
    /\ aobs' = [aobs EXCEPT !.reads = @ + 1, !.op = "read", !.raw = raw,
                            !.vals = ReadCalibrated(arr, raw).vals]
    /\ UNCHANGED <<pidVars, seqVars, fk, dobs, enc, tt, ft>>

\* sensors.get_line_error()
ErrorCall(raw) ==
    LET r    == GetLineError(arr, raw)
        lost == \A i \in Sensors : CalibratedVals(arr, raw)[i] = 0
    IN  /\ arr' = r.arr
        /\ aobs' = [aobs EXCEPT !.reads = @ + 1, !.op = "error", !.raw = raw,
                                !.lost = lost, !.ret = r.ret, !.prev_ret = aobs.ret,
                                !.last_valid = IF lost THEN @ ELSE r.arr.last_error]
        /\ UNCHANGED <<pidVars, seqVars, fk, dobs, enc, tt, ft>>

\* sensors.is_black_bar_confirmed(required_hits=n)
ConfirmCall(raw) ==
    LET r   == IsBlackBarConfirmed(arr, raw, DEFAULT_BAR_THRESHOLD, aobs.required_hits)
        bar == Cardinality({i \in Sensors : CalibratedVals(arr, raw)[i] = 1})
                  >= DEFAULT_BAR_THRESHOLD
    IN  /\ arr' = r.arr
        /\ aobs' = [aobs EXCEPT !.reads = @ + 1, !.op = "confirm", !.raw = raw,
                                !.confirmed = r.ret,
                                !.run = IF bar THEN @ + 1 ELSE 0,
                                !.fires = IF ~bar THEN 0
                                          ELSE IF r.ret THEN @ + 1 ELSE @]
        /\ UNCHANGED <<pidVars, seqVars, fk, dobs, enc, tt, ft>>

\* sensors.reset_bar_detector()
ResetBarCall ==
    /\ aobs.op # "reset"
    /\ arr' = ResetBarDetector(arr)
    /\ aobs' = [aobs EXCEPT !.op = "reset", !.confirmed = FALSE, !.run = 0, !.fires = 0]
    /\ UNCHANGED <<pidVars, seqVars, fk, dobs, enc, tt, ft>>

NextArr ==
    \/ /\ aobs.reads < MaxReads
       /\ \E raw \in RawFrames : ReadCall(raw) \/ ErrorCall(raw) \/ ConfirmCall(raw)
    \/ ResetBarCall

SpecArr == InitArr /\ [][NextArr]_vars

\* get_line_error on every pin pattern
NextFrames ==
    /\ aobs.reads < MaxFullReads
    /\ \E raw \in AllRawFrames : ErrorCall(raw)

SpecFrames == InitFrames /\ [][NextFrames]_vars

(***************************************************************************)
(* run_robot: the sequencer loop, lines 202-320                            *)
(***************************************************************************)
MaxSegTicks == 6

\* pin patterns read during a run: no line, line under sensor 6, a bar under
\* the four centre sensors
SeqPinSets == { {}, {6}, {3, 4, 5, 6} }
SeqFrames == { [i \in Sensors |-> i \in S] : S \in SeqPinSets }
\* what the encoders report to set_speeds, the same on every call of a run:
\* 0 rpm, 100 rpm
RpmReadings == { 0, 1000000 }
\* how long one loop iteration takes, its sleep(0.001) included: 2 ms, or
\* 60 ms when the telemetry link is slow
LOOP_TIME == 20
TickDurations == { LOOP_TIME, 600 }
\* the age of MotorDriver.last_loop_time when the loop is entered: the
\* calibration spin, the two sleeps and the start delay
START_LOOP_AGE == 55000

\* the position in the scenario normal, bar x 4, normal
ScenNext(scen, is_bar, lost) ==
    IF scen = 0 /\ ~is_bar /\ ~lost THEN 1
    ELSE IF scen \in 1..4 /\ is_bar THEN scen + 1
    ELSE IF scen = 5 /\ ~is_bar /\ ~lost THEN 6
    ELSE -1

\* the state when run_robot enters its loop: sensors calibrated over the line,
\* motors stopped after the calibration spin
InitSeq ==
    /\ ft = FtIdle
    /\ pid = PIDNew(KP, KI, KD, FALSE, 0)
    /\ ref = PIDNew(0, 0, 0, FALSE, 0)
    /\ obs = NoCall
    /\ arr = [ArrNew(TRUE, FALSE, 0) EXCEPT !.min_vals = [i \in Sensors |-> 0],
                                            !.max_vals = [i \in Sensors |-> 1]]
    /\ aobs = NoArrCall
    /\ drv = [DrvNew EXCEPT !.loop_age = START_LOOP_AGE]
    /\ \E rpm \in RpmReadings : sq = SeqStart(TRUE, rpm)
    /\ sobs = NoTick
    /\ fk = ForkIdle
    /\ dobs = NoDrvCall
    /\ enc = EncIdle
    /\ tt = TtIdle

\* step 1, the killswitch: stop, wait for release, break; then "finally" (the
\* mutant halts the way the gap branch does, with set_speeds(0, 0))
KillSwitchBySetSpeeds ==
    LET d1 == SetSpeeds(drv, 0, 0, sq.enc_rpm, sq.enc_rpm)
    IN  /\ drv' = d1
        /\ sq' = [sq EXCEPT !.pc = "stopped"]
        /\ sobs' = [sobs EXCEPT !.branch = "kill", !.cmds = <<CmdSetSpeeds(d1, 0, 0)>>,
                                !.scen = -1]
        /\ UNCHANGED <<pid, arr>>

KillSwitch ==
    LET d1 == Stop(drv)
        d2 == Stop(d1)
    IN  /\ drv' = d2
        /\ sq' = [sq EXCEPT !.pc = "stopped"]
        /\ sobs' = [sobs EXCEPT !.branch = "kill", !.cmds = <<CmdStop(d1), CmdStop(d2)>>,
                                !.scen = -1]
        /\ UNCHANGED <<pid, arr>>

\* step 5 when the index runs past the end: stop, break; then "finally" (the
\* mutant clears the bar first, as an interior transition does)
CompleteAfterClearing(a, hits, o) ==
    LET d1 == SetSpeeds(drv, BASE_SPEED, BASE_SPEED, sq.enc_rpm, sq.enc_rpm)
        d2 == Stop(DrvElapse(d1, BAR_CLEAR_TIME))
    IN  /\ drv' = d2
        /\ arr' = a
        /\ sq' = [sq EXCEPT !.pc = "done", !.track_index = @ + 1, !.bar_hits = hits]
        /\ sobs' = [o EXCEPT !.branch = "complete",
                             !.cmds = <<CmdSetSpeeds(d1, BASE_SPEED, BASE_SPEED), CmdStop(d2)>>,
                             !.advances = @ + 1]
        /\ UNCHANGED pid

Complete(a, hits, o) ==
    LET d1 == Stop(drv)
        d2 == Stop(d1)
    IN  /\ drv' = d2
        /\ arr' = a
        /\ sq' = [sq EXCEPT !.pc = "done", !.track_index = @ + 1, !.bar_hits = hits]
        /\ sobs' = [o EXCEPT !.branch = "complete", !.cmds = <<CmdStop(d1), CmdStop(d2)>>,
                             !.advances = @ + 1]
        /\ UNCHANGED pid

\* lines 264-270, "Clear Bar": the blind drive, the sleep, the stop; the driver
\* afterwards and the calls made (the mutant stops before it drives)
ClearBarStopsFirst(d, blind_time, rpm) ==
    LET d1 == Stop(d)
        d2 == DrvElapse(SetSpeeds(d1, BASE_SPEED, BASE_SPEED, rpm, rpm), blind_time)
    IN  [drv |-> d2, cmds |-> <<CmdStop(d1), CmdSetSpeeds(d2, BASE_SPEED, BASE_SPEED)>>]

ClearBar(d, blind_time, rpm) ==
    LET d1 == SetSpeeds(d, BASE_SPEED, BASE_SPEED, rpm, rpm)
        d2 == Stop(DrvElapse(d1, blind_time))
    IN  [drv |-> d2, cmds |-> <<CmdSetSpeeds(d1, BASE_SPEED, BASE_SPEED), CmdStop(d2)>>]

\* step 5 otherwise: blind drive over the bar, stop, enter the next segment
Transition(a, hits, dbg, rpm, o) ==
    LET blind_time == IF Track(sq.current_track).name = "START_LINE"
                      THEN START_CLEAR_TIME ELSE BAR_CLEAR_TIME
        idx    == sq.track_index + 1
        cb     == ClearBar(drv, blind_time, rpm)
        d2     == cb.drv
        d3     == Stop(d2)
        dbgage == Min((IF dbg THEN 0 ELSE sq.last_debug_age) + blind_time, DEBUG_PERIOD + 1)
        s1     == [sq EXCEPT !.track_index = idx, !.current_track = idx,
                             !.gaps_allowed = Track(idx).gaps_allowed,
                             !.last_debug_age = dbgage, !.seg_ticks = 0]
        o1     == [o EXCEPT !.advances = @ + 1, !.blind_time = blind_time]
    IN  /\ arr' = a
        /\ IF Track(idx).action = "None"
           THEN \* lines 290-293
                /\ drv' = d2
                /\ pid' = PIDReset(pid)
                /\ sq' = [s1 EXCEPT !.bar_hits = 0, !.last_time_age = 0]
                /\ sobs' = [o1 EXCEPT !.branch = "transition", !.cmds = cb.cmds]
           ELSE IF Track(idx).action = "run_t_turns"
           THEN \* line 281: run_t_turns accepts keyword arguments only, the call
                \* with two positional arguments raises TypeError; then "finally"
                /\ drv' = d3
                /\ pid' = pid
                /\ sq' = [s1 EXCEPT !.pc = "crashed", !.bar_hits = hits]
                /\ sobs' = [o1 EXCEPT !.branch = "crash",
                                      !.cmds = Append(cb.cmds, CmdStop(d3))]
           ELSE \* line 281: the fork wrappers run with the loop suspended
                /\ drv' = d2
                /\ pid' = pid
                /\ sq' = [s1 EXCEPT !.pc = "action", !.bar_hits = hits]
                /\ sobs' = [o1 EXCEPT !.branch = "action", !.cmds = cb.cmds]

\* step 6 on a lost line
Gap(a, hits, dbg, rpm, d, o) ==
    LET speed == IF sq.gaps_allowed THEN BASE_SPEED ELSE 0
        d1    == SetSpeeds(drv, speed, speed, rpm, rpm)
    IN  /\ arr' = a
        /\ drv' = DrvElapse(d1, d)
        /\ pid' = pid
        /\ sq' = [sq EXCEPT !.bar_hits = hits,
                            !.last_time_age = Min(d, MAX_DT + 1),
                            !.last_debug_age = Min((IF dbg THEN 0 ELSE @) + d, DEBUG_PERIOD + 1),
                            !.seg_ticks = @ + 1]
        /\ sobs' = [o EXCEPT !.branch = IF sq.gaps_allowed THEN "gap_blind" ELSE "gap_stop",
                             !.cmds = <<CmdSetSpeeds(d1, speed, speed)>>]

\* step 6 otherwise, "Normal PID"
Follow(a, hits, dbg, dt, raw_err, rpm, d, o) ==
    LET ge == GetLineError(a, raw_err)
        pu == PIDUpdate(pid, 0, ge.ret, dt)
        correction == ClampCorrection(pu.out)
        d1 == SetSpeeds(drv, BASE_SPEED - correction, BASE_SPEED + correction, rpm, rpm)
    IN  /\ arr' = ge.arr
        /\ drv' = DrvElapse(d1, d)
        /\ pid' = pu.pid
        /\ sq' = [sq EXCEPT !.bar_hits = hits,
                            !.last_time_age = Min(d, MAX_DT + 1),
                            !.last_debug_age = Min((IF dbg THEN 0 ELSE @) + d, DEBUG_PERIOD + 1),
                            !.seg_ticks = @ + 1]
        /\ sobs' = [o EXCEPT !.branch = "follow", !.correction = correction,
                             !.cmds = <<CmdSetSpeeds(d1, BASE_SPEED - correction,
                                                     BASE_SPEED + correction)>>]

\* steps 2-4 of an iteration and the debug print, for the pins raw (step 3)
\* and raw_dbg (the get_line_error() of the debug print)
Classify(raw, raw_dbg) ==
    LET rc   == ReadCalibrated(arr, raw)
        dbg  == sq.last_debug_age > DEBUG_PERIOD
    IN  [dt   |-> ClampDt(sq.last_time_age),
         bar  |-> current_frame_is_bar(rc.vals),
         hits |-> LeakyBucket(sq.bar_hits, current_frame_is_bar(rc.vals)),
         dbg  |-> dbg,
         arr  |-> IF dbg THEN GetLineError(rc.arr, raw_dbg).arr ELSE rc.arr,
         lost |-> is_line_lost(rc.vals)]

\* what the iteration is seen to do with the pins raw
Observed(raw, c) ==
    [sobs EXCEPT !.raw = raw,
                 !.is_bar = Cardinality({i \in Sensors : raw[i]}) >= BAR_COUNT_THRESH,
                 !.lost = \A i \in Sensors : ~raw[i],
                 !.hits_before = sq.bar_hits, !.hits_mid = c.hits,
                 !.dt = c.dt, !.correction = 0, !.blind_time = 0,
                 !.scen = ScenNext(sobs.scen,
                                   Cardinality({i \in Sensors : raw[i]}) >= BAR_COUNT_THRESH,
                                   \A i \in Sensors : ~raw[i])]

\* the pins the debug print can read: it reads only when the print is due
DebugFrames(raw) == IF sq.last_debug_age > DEBUG_PERIOD THEN SeqFrames ELSE {raw}
\* an iteration that sends a debug message can take long
Durations == IF sq.last_debug_age > DEBUG_PERIOD THEN TickDurations ELSE {LOOP_TIME}

\* an iteration of "while True" with the button pressed
KillTick ==
    /\ sq.pc = "run" /\ sq.has_button
    /\ KillSwitch
    /\ UNCHANGED <<ref, obs, aobs, fk, dobs, enc, tt, ft>>

\* line 258: the index has run past the end of the list of n segments (the
\* mutant lets the index equal to n through)
PastTheEndLate(idx, n) == idx > n

PastTheEnd(idx, n) == idx >= n

\* an iteration that confirms a bar
BarTick(raw, raw_dbg, rpm) ==
    LET c == Classify(raw, raw_dbg)
    IN  /\ sq.pc = "run"
        /\ c.hits >= TRANSITION_HITS
        /\ IF PastTheEnd(sq.track_index + 1, sq.ntracks)
           THEN Complete(c.arr, c.hits, Observed(raw, c))
           ELSE Transition(c.arr, c.hits, c.dbg, rpm, Observed(raw, c))
        /\ UNCHANGED <<ref, obs, aobs, fk, dobs, enc, tt, ft>>

\* an iteration on a lost line
GapTick(raw, raw_dbg, rpm, d) ==
    LET c == Classify(raw, raw_dbg)
    IN  /\ sq.pc = "run" /\ sq.seg_ticks < MaxSegTicks
        /\ c.hits < TRANSITION_HITS /\ c.lost
        /\ Gap(c.arr, c.hits, c.dbg, rpm, d, Observed(raw, c))
        /\ UNCHANGED <<ref, obs, aobs, fk, dobs, enc, tt, ft>>

\* an iteration that steers
FollowTick(raw, raw_dbg, raw_err, rpm, d) ==
    LET c == Classify(raw, raw_dbg)
    IN  /\ sq.pc = "run" /\ sq.seg_ticks < MaxSegTicks
        /\ c.hits < TRANSITION_HITS /\ ~c.lost
        /\ Follow(c.arr, c.hits, c.dbg, c.dt, raw_err, rpm, d, Observed(raw, c))
        /\ UNCHANGED <<ref, obs, aobs, fk, dobs, enc, tt, ft>>

NextSeq ==
    \/ KillTick
    \/ \E raw \in SeqFrames, rpm \in {sq.enc_rpm} :
         \E raw_dbg \in DebugFrames(raw) :
            \/ BarTick(raw, raw_dbg, rpm)
            \/ \E d \in Durations :
                  \/ GapTick(raw, raw_dbg, rpm, d)
                  \/ \E raw_err \in SeqFrames : FollowTick(raw, raw_dbg, raw_err, rpm, d)

SpecSeq == InitSeq /\ [][NextSeq]_vars

\* The run with TRACK_SEQUENCE cut down to the entries before its first
\* maneuver, the way the list is edited between runs (its START_LINE entry is
\* commented out in the source): the last bar of this list is reachable.
ManeuverFreePrefix ==
    CHOOSE n \in 0..Len(TRACK_SEQUENCE) :
        /\ \A i \in 1..n : TRACK_SEQUENCE[i].action = "None"
        /\ n = Len(TRACK_SEQUENCE) \/ TRACK_SEQUENCE[n + 1].action # "None"

InitShort ==
    /\ ft = FtIdle
    /\ pid = PIDNew(KP, KI, KD, FALSE, 0)
    /\ ref = PIDNew(0, 0, 0, FALSE, 0)
    /\ obs = NoCall
    /\ arr = [ArrNew(TRUE, FALSE, 0) EXCEPT !.min_vals = [i \in Sensors |-> 0],
                                            !.max_vals = [i \in Sensors |-> 1]]
    /\ aobs = NoArrCall
    /\ drv = [DrvNew EXCEPT !.loop_age = START_LOOP_AGE]
    /\ \E rpm \in RpmReadings :
          sq = [SeqStart(TRUE, rpm) EXCEPT !.ntracks = ManeuverFreePrefix]
    /\ sobs = NoTick
    /\ fk = ForkIdle
    /\ dobs = NoDrvCall
    /\ enc = EncIdle
    /\ tt = TtIdle

SpecShort == InitShort /\ [][NextSeq]_vars

(***************************************************************************)
(* The fork maneuvers, called one at a time                                *)
(***************************************************************************)
\* came_from as passed by a caller: the three branches, and a value that is
\* none of them
CameFromValues == { "LEFT", "CENTER", "RIGHT", "UP" }
ForkChoices == { "LEFT", "CENTER", "RIGHT" }
\* pin patterns read during a maneuver: no line, line under the left edge
\* sensor, under sensor 6, under the right edge sensor, a bar
ForkPinSets == { {}, {1}, {6}, {8}, Sensors }
ForkFrames == { [i \in Sensors |-> i \in S] : S \in ForkPinSets }
\* the time one pass of a polling loop takes: 0.5 s
PollTimes == { 5000 }
\* maneuvers one run of the model calls
MaxForkCalls == 2

InitFork ==
    /\ ft = FtIdle
    /\ PidIdle
    /\ ArrIdle
    /\ drv = DrvNew
    /\ sq = [SeqStart(FALSE, 0) EXCEPT !.pc = "off"]
    /\ sobs = NoTick
    /\ fk = ForkIdle
    /\ dobs = NoDrvCall
    /\ enc = EncIdle
    /\ tt = TtIdle

\* a function of fork.py is entered; LAST_FORK_CHOICE is a global and stays
ForkEnter(fn, wrapper, rpm) ==
    [ForkIdle EXCEPT !.fn = fn, !.wrapper = wrapper, !.rpm = rpm,
                     !.last_choice = fk.last_choice, !.calls = fk.calls]

\* force_align_and_cross, lines 20-57: the pivot, the stop, the re-check and
\* the start of the jolt
ForceAlignBegin(came_from, raw, rpm, wrapper) ==
    LET d1 == IF came_from = "LEFT"
              THEN DrvElapse(SetSpeeds(drv, -PIVOT_SPEED, PIVOT_SPEED, rpm, rpm), PIVOT_TIME)
              ELSE IF came_from = "RIGHT"
              THEN DrvElapse(SetSpeeds(drv, PIVOT_SPEED, -PIVOT_SPEED, rpm, rpm), PIVOT_TIME)
              ELSE drv
        c1 == IF came_from = "LEFT" THEN <<CmdSetSpeeds(d1, -PIVOT_SPEED, PIVOT_SPEED)>>
              ELSE IF came_from = "RIGHT" THEN <<CmdSetSpeeds(d1, PIVOT_SPEED, -PIVOT_SPEED)>>
              ELSE <<>>
        d2 == DrvElapse(Stop(d1), PIVOT_SETTLE)
        d3 == SetSpeeds(d2, JOLT_SPEED, JOLT_SPEED, rpm, rpm)
    IN  /\ arr' = ReadCalibrated(arr, raw).arr
        /\ drv' = d3
        /\ fk' = [ForkEnter("force_align_and_cross", wrapper, rpm) EXCEPT
                     !.pc = "jolt", !.came_from = came_from,
                     !.cmds = c1 \o <<CmdStop(d2),
                                      CmdSetSpeeds(d3, JOLT_SPEED, JOLT_SPEED)>>]

\* fork.force_align_and_cross(motors, sensors, came_from)
ForceAlignStart(came_from, raw, rpm) ==
    /\ fk.pc = "idle" /\ fk.calls < MaxForkCalls
    /\ ForceAlignBegin(came_from, raw, rpm, "none")
    /\ UNCHANGED <<pidVars, aobs, sq, sobs, dobs, enc, tt, ft>>

\* lines 69-70: the stop and the settling sleep that end the maneuver; clear
\* tells whether the loop was left by its break
ForceAlignEnd(a, d, clear) ==
    LET d1 == Stop(d)
    IN  /\ arr' = a
        /\ drv' = DrvElapse(d1, JOLT_SETTLE)
        /\ fk' = [fk EXCEPT !.pc = "returned", !.cmds = Append(@, CmdStop(d1)),
                            !.clear = clear,
                            !.exit = IF clear THEN "condition" ELSE "timeout"]

\* lines 59-67: one pass of the jolt loop, reading raw and taking time t
JoltPoll(raw, t) ==
    LET rc == ReadCalibrated(arr, raw)
    IN  /\ fk.pc = "jolt" /\ fk.jolt_age < JOLT_TIMEOUT
        /\ IF ~see_line(rc.vals)
           THEN ForceAlignEnd(rc.arr, drv, \A i \in Sensors : raw[i] # arr.line_high)
           ELSE /\ arr' = rc.arr
                /\ drv' = DrvElapse(drv, t)
                /\ fk' = [fk EXCEPT !.jolt_age = @ + t]
        /\ UNCHANGED <<pidVars, aobs, sq, sobs, dobs, enc, tt, ft>>

\* line 59: the loop condition fails, the safety timeout has elapsed
JoltTimeout ==
    /\ fk.pc = "jolt" /\ ~(fk.jolt_age < JOLT_TIMEOUT)
    /\ ForceAlignEnd(arr, drv, FALSE)
    /\ UNCHANGED <<pidVars, aobs, sq, sobs, dobs, enc, tt, ft>>

\* standard_align, lines 84 and 94: the stop that precedes each return (the
\* mutant returns with the last wiggle still commanded)
StandardAlignEndCoasts(d) == [drv |-> d, cmds |-> <<>>]

StandardAlignEnd(d) == [drv |-> Stop(d), cmds |-> <<CmdStop(Stop(d))>>]

\* standard_align returns, to do_fork_action (line 20) or to its caller
AlignReturn(a, e, exit) ==
    /\ arr' = a
    /\ drv' = e.drv
    /\ fk' = [fk EXCEPT !.pc = IF fk.wrapper = "do_fork_action" THEN "choose" ELSE "returned",
                        !.cmds = @ \o e.cmds, !.exit = exit]

\* fork.standard_align(motors, sensors), lines 72-76
StandardAlignStart(rpm) ==
    /\ fk.pc = "idle" /\ fk.calls < MaxForkCalls
    /\ fk' = [ForkEnter("standard_align", "none", rpm) EXCEPT !.pc = "align"]
    /\ UNCHANGED <<pidVars, arrVars, seqVars, dobs, enc, tt, ft>>

\* robot_main.do_fork_action, lines 14-19: it starts with standard_align
DoForkAction(rpm) ==
    /\ fk.pc = "idle" /\ fk.calls < MaxForkCalls
    /\ fk' = [ForkEnter("standard_align", "do_fork_action", rpm) EXCEPT !.pc = "align"]
    /\ UNCHANGED <<pidVars, arrVars, seqVars, dobs, enc, tt, ft>>

\* lines 78-92: one pass of the wiggle loop
StandardAlignPoll(raw, t) ==
    LET rc == ReadCalibrated(arr, raw)
        lb == left_black(rc.vals)
        rb == right_black(rc.vals)
        l  == IF lb /\ ~rb THEN -ALIGN_SPEED ELSE ALIGN_SPEED
        r  == IF rb /\ ~lb THEN -ALIGN_SPEED ELSE ALIGN_SPEED
        d1 == SetSpeeds(drv, l, r, fk.rpm, fk.rpm)
    IN  /\ fk.pc = "align" /\ fk.jolt_age < ALIGN_TIMEOUT
        /\ IF lb /\ rb
           THEN AlignReturn(rc.arr, StandardAlignEnd(drv), "condition")
           ELSE /\ arr' = rc.arr
                /\ drv' = DrvElapse(d1, t)
                /\ fk' = [fk EXCEPT !.jolt_age = @ + t,
                                    !.cmds = Append(@, CmdSetSpeeds(d1, l, r))]
        /\ UNCHANGED <<pidVars, aobs, sq, sobs, dobs, enc, tt, ft>>

\* line 78 fails: the 2.0 s are over
StandardAlignTimeout ==
    /\ fk.pc = "align" /\ ~(fk.jolt_age < ALIGN_TIMEOUT)
    /\ AlignReturn(arr, StandardAlignEnd(drv), "timeout")
    /\ UNCHANGED <<pidVars, aobs, sq, sobs, dobs, enc, tt, ft>>

\* execute_random_fork, called directly or by do_fork_action (line 20, which
\* binds LAST_FORK_CHOICE); choice is what random.choice returns
ExecuteRandomFork(choice, rpm) ==
    LET d1 == IF choice = "LEFT"
              THEN DrvElapse(SetSpeeds(drv, 0, FORK_TURN_SPEED, rpm, rpm), FORK_TURN_TIME)
              ELSE IF choice = "RIGHT"
              THEN DrvElapse(SetSpeeds(drv, FORK_TURN_SPEED, 0, rpm, rpm), FORK_TURN_TIME)
              ELSE DrvElapse(SetSpeeds(drv, FORK_TURN_SPEED, FORK_TURN_SPEED, rpm, rpm),
                             FORK_FORWARD_TIME)
        l  == IF choice = "LEFT" THEN 0 ELSE FORK_TURN_SPEED
        r  == IF choice = "RIGHT" THEN 0 ELSE FORK_TURN_SPEED
    IN  /\ fk.pc \in {"idle", "choose"}
        /\ fk.pc = "idle" => fk.calls < MaxForkCalls
        /\ fk.pc = "choose" => rpm = fk.rpm
        /\ drv' = d1
        /\ fk' = [ForkEnter("execute_random_fork", fk.wrapper, rpm) EXCEPT
                     !.pc = "returned", !.ret = choice,
                     !.cmds = fk.cmds \o <<CmdSetSpeeds(d1, l, r)>>,
                     !.last_choice = IF fk.wrapper = "do_fork_action" THEN choice ELSE @]
        /\ UNCHANGED <<pidVars, arrVars, sq, sobs, dobs, enc, tt, ft>>

\* robot_main.fork_return_action: line 26 reads the global LAST_FORK_CHOICE,
\* which raises NameError while the name is unbound; it cannot be None
ForkReturnAction(raw, rpm) ==
    /\ fk.pc = "idle" /\ fk.calls < MaxForkCalls
    /\ IF fk.last_choice = "unbound"
       THEN /\ fk' = [ForkEnter("fork_return_action", "fork_return_action", rpm) EXCEPT
                         !.pc = "returned", !.raised = TRUE]
            /\ UNCHANGED <<arr, drv>>
       ELSE ForceAlignBegin(fk.last_choice, raw, rpm, "fork_return_action")
    /\ UNCHANGED <<pidVars, aobs, sq, sobs, dobs, enc, tt, ft>>

\* turn_180, lines 116-127: the blind spin
Turn180Start(rpm) ==
    LET d1 == SetSpeeds(drv, SPIN_SPEED, -SPIN_SPEED, rpm, rpm)
    IN  /\ fk.pc = "idle" /\ fk.calls < MaxForkCalls
        /\ drv' = DrvElapse(d1, SPIN_BLIND_TIME)
        /\ fk' = [ForkEnter("turn_180", "none", rpm) EXCEPT
                     !.pc = "spin", !.cmds = <<CmdSetSpeeds(d1, SPIN_SPEED, -SPIN_SPEED)>>]
        /\ UNCHANGED <<pidVars, arrVars, sq, sobs, dobs, enc, tt, ft>>

\* lines 135-136
Turn180End(a, d, exit) ==
    LET d1 == Stop(d)
    IN  /\ arr' = a
        /\ drv' = DrvElapse(d1, SPIN_SETTLE)
        /\ fk' = [fk EXCEPT !.pc = "returned", !.cmds = Append(@, CmdStop(d1)),
                            !.exit = exit]

\* lines 128-133: one pass of the spin loop
Turn180Poll(raw, t) ==
    LET rc == ReadCalibrated(arr, raw)
        d1 == SetSpeeds(drv, SPIN_SPEED, -SPIN_SPEED, fk.rpm, fk.rpm)
    IN  /\ fk.pc = "spin" /\ fk.jolt_age < SPIN_TIMEOUT
        /\ IF centre_black(rc.vals)
           THEN Turn180End(rc.arr, drv, "condition")
           ELSE /\ arr' = rc.arr
                /\ drv' = DrvElapse(d1, t)
                /\ fk' = [fk EXCEPT !.jolt_age = @ + t,
                                    !.cmds = Append(@, CmdSetSpeeds(d1, SPIN_SPEED, -SPIN_SPEED))]
        /\ UNCHANGED <<pidVars, aobs, sq, sobs, dobs, enc, tt, ft>>

\* line 128 fails: the 2.5 s are over
Turn180Timeout ==
    /\ fk.pc = "spin" /\ ~(fk.jolt_age < SPIN_TIMEOUT)
    /\ Turn180End(arr, drv, "timeout")
    /\ UNCHANGED <<pidVars, aobs, sq, sobs, dobs, enc, tt, ft>>

\* the caller goes on to its next call
ForkReturn ==
    /\ fk.pc = "returned"
    /\ fk' = [ForkIdle EXCEPT !.last_choice = fk.last_choice, !.calls = fk.calls + 1]
    /\ UNCHANGED <<pidVars, arrVars, seqVars, dobs, enc, tt, ft>>

NextFork ==
    \/ \E cf \in CameFromValues, raw \in ForkFrames, rpm \in RpmReadings :
          ForceAlignStart(cf, raw, rpm)
    \/ \E raw \in ForkFrames, t \in PollTimes : JoltPoll(raw, t)
    \/ JoltTimeout
    \/ \E rpm \in RpmReadings : StandardAlignStart(rpm)
    \/ \E rpm \in RpmReadings : DoForkAction(rpm)
    \/ \E raw \in ForkFrames, t \in PollTimes : StandardAlignPoll(raw, t)
    \/ StandardAlignTimeout
    \/ \E choice \in ForkChoices, rpm \in RpmReadings : ExecuteRandomFork(choice, rpm)
    \/ \E raw \in ForkFrames, rpm \in RpmReadings : ForkReturnAction(raw, rpm)
    \/ \E rpm \in RpmReadings : Turn180Start(rpm)
    \/ \E raw \in ForkFrames, t \in PollTimes : Turn180Poll(raw, t)
    \/ Turn180Timeout
    \/ ForkReturn

SpecFork == InitFork /\ [][NextFork]_vars

(***************************************************************************)
(* A MotorDriver driven by an arbitrary caller                             *)
(***************************************************************************)
MaxDrvCalls == 3

\* the arguments callers pass to set_speeds: halt, the base speed, a pivot,
\* base speed with the largest clamped correction, and 1.5 on both sides
\* (t_turn.pid_drive adds an unclamped correction to its base speed)
SpeedPairs == { <<0, 0>>, <<BASE_SPEED, BASE_SPEED>>, <<-PIVOT_SPEED, PIVOT_SPEED>>,
                <<BASE_SPEED - MAX_CORRECTION, BASE_SPEED + MAX_CORRECTION>>,
                <<15000, 15000>> }
\* the time between two calls on the driver: 10 ms, 100 ms
CallGaps == { 100, 1000 }

InitDrv ==
    /\ ft = FtIdle
    /\ PidIdle
    /\ ArrIdle
    /\ SeqIdle
    /\ fk = ForkIdle
    /\ dobs = NoDrvCall
    /\ enc = EncIdle
    /\ tt = TtIdle

\* motors.set_speeds(left, right), t after the previous call, with both
\* encoders reporting rpm
SetSpeedsCall(left, right, rpm, t) ==
    /\ dobs.calls < MaxDrvCalls
    /\ drv' = SetSpeeds(DrvElapse(drv, t), left, right, rpm, rpm)
    /\ dobs' = [calls |-> dobs.calls + 1, op |-> "set_speeds",
                left |-> left, right |-> right,
                target_l |-> TargetRpm(left), target_r |-> TargetRpm(right),
                ff_l |-> FeedForward(left), ff_r |-> FeedForward(right)]
    /\ UNCHANGED <<pidVars, arrVars, sq, sobs, fk, enc, tt, ft>>

\* motors.stop()
StopCall ==
    /\ dobs.calls < MaxDrvCalls
    /\ drv' = Stop(drv)
    /\ dobs' = [NoDrvCall EXCEPT !.calls = dobs.calls + 1, !.op = "stop"]
    /\ UNCHANGED <<pidVars, arrVars, sq, sobs, fk, enc, tt, ft>>

NextDrv ==
    \/ \E p \in SpeedPairs, rpm \in RpmReadings, t \in CallGaps :
          SetSpeedsCall(p[1], p[2], rpm, t)
    \/ StopCall

SpecDrv == InitDrv /\ [][NextDrv]_vars

(***************************************************************************)
(* A SimpleEncoder read by an arbitrary caller                             *)
(***************************************************************************)
MaxEncReads == 4

\* the time between two reads: 10 ms, 300 ms
ReadGaps == { 100, 3000 }
\* rising edges counted between two reads
PulseCounts == { 0, 1, 3 }

InitEnc ==
    /\ ft = FtIdle
    /\ PidIdle
    /\ ArrIdle
    /\ SeqIdle
    /\ fk = ForkIdle
    /\ dobs = NoDrvCall
    /\ \E has_counter \in BOOLEAN, pin \in BOOLEAN :
          enc = [st |-> EncNew(has_counter, pin), ob |-> NoEncRead]
    /\ tt = TtIdle

\* enc.read_rpm()
ReadRpmCall(t, delta, val) ==
    LET e1 == ReadRpm(enc.st, t, delta, val)
        pulses == IF enc.st.has_counter THEN delta
                  ELSE IF val /\ ~enc.st.last_state THEN 1 ELSE 0
    IN  /\ enc.ob.reads < MaxEncReads
        /\ enc' = [st |-> e1,
                   ob |-> [reads |-> enc.ob.reads + 1, pulses |-> pulses,
                           dt |-> enc.ob.idle + t,
                           idle |-> IF pulses > 0 THEN 0 ELSE enc.ob.idle + t,
                           ret |-> e1.current_rpm, prev_ret |-> enc.ob.ret]]
        /\ UNCHANGED <<pidVars, arrVars, seqVars, fk, dobs, tt, ft>>

NextEnc ==
    \/ \E t \in ReadGaps :
          \/ /\ enc.st.has_counter
             /\ \E delta \in PulseCounts : ReadRpmCall(t, delta, FALSE)
          \/ /\ ~enc.st.has_counter
             /\ \E val \in BOOLEAN : ReadRpmCall(t, 0, val)

SpecEnc == InitEnc /\ [][NextEnc]_vars

(***************************************************************************)
(* run_line_follower: the loop of the T-turn follower, t_turn.py 158-191   *)
(***************************************************************************)
MaxTtTicks == 3
\* pin patterns: no line, left edge, right edge, both edges, line left of
\* centre, line right of centre
TtPinSets == { {}, {1}, {8}, {1, 8}, {3}, {6} }
TtFrames == { [i \in Sensors |-> i \in S] : S \in TtPinSets }
\* what a later read of the same iteration can find instead: the line gone,
\* or right of centre
TtDriftPinSets == { {}, {6} }
TtRereadFrames(raw) == {raw} \cup { [i \in Sensors |-> i \in S] : S \in TtDriftPinSets }
\* how long one iteration takes: 0.1 s, 0.25 s
TtDurations == { 1000, 2500 }
\* how long a pause lasts, from the press to the release that resumes
TtPauseTimes == { 1000, 5000 }

\* the state when run_t_turns enters run_line_follower: sensors calibrated,
\* a new PID
InitTt ==
    /\ ft = FtIdle
    /\ pid = PIDNew(TT_KP, TT_KI, TT_KD, FALSE, 0)
    /\ ref = PIDNew(0, 0, 0, FALSE, 0)
    /\ obs = NoCall
    /\ arr = [ArrNew(TRUE, FALSE, 0) EXCEPT !.min_vals = [i \in Sensors |-> 0],
                                            !.max_vals = [i \in Sensors |-> 1]]
    /\ aobs = NoArrCall
    /\ SeqIdle
    /\ fk = ForkIdle
    /\ dobs = NoDrvCall
    /\ enc = EncIdle
    /\ \E has_button \in BOOLEAN : tt = TtStart(has_button)

\* the time d passes: the locals as the next iteration reads its clock
TtElapse(t, d) ==
    [t EXCEPT !.turn_lock_until = Max(0, @ - d),
              !.trig_age = Min(@ + d, HARD_TURN_DURATION),
              !.ticks = @ + 1]

\* what an iteration is seen to do
TtObserved(branch, cmd, vals, lve, pid_updated, retriggered) ==
    [branch |-> branch, cmd |-> cmd,
     in_window |-> tt.trig_dir # 0 /\ tt.trig_age < HARD_TURN_DURATION,
     window_dir |-> tt.trig_dir,
     vals |-> vals, last_valid_error |-> lve,
     pid_updated |-> pid_updated, retriggered |-> retriggered]

\* the pins get_line_error() of read_line_state can read: it reads only when
\* the frame is above MEMORY_THRESHOLD
MemFrames(raw) ==
    IF MaxReflection(CalibratedVals(arr, raw)) * ONE > MEMORY_THRESHOLD
    THEN TtRereadFrames(raw) ELSE {raw}

\* an iteration that finds the button pressed: handle_pause_if_pressed stops,
\* waits p for the resume and resets the PID; lines 168-171
TtPauseTick(p) ==
    /\ tt.pc = "run" /\ tt.ticks < MaxTtTicks
    /\ tt.has_button
    /\ pid' = PIDReset(pid)
    /\ tt' = [TtElapse(tt, p) EXCEPT
                 !.last_time_age = 0,
                 !.ob = TtObserved("pause", TtCmd("stop", 0, 0), tt.ob.vals,
                                   tt.last_valid_error, FALSE, FALSE)]
    /\ UNCHANGED <<ref, obs, arrVars, seqVars, fk, dobs, enc, ft>>

\* an iteration inside a lock: lines 173-179
TtLockTick(raw, raw_mem, d) ==
    LET rs == ReadLineState(arr, tt.last_valid_error, raw, raw_mem)
    IN  /\ tt.pc = "run" /\ tt.ticks < MaxTtTicks
        /\ LockHolds(tt.turn_lock_until)
        /\ arr' = rs.arr
        /\ tt' = [TtElapse(tt, d) EXCEPT
                     !.last_time_age = d,
                     !.last_valid_error = rs.last_valid_error,
                     !.ob = TtObserved("lock", PivotCmd(tt.turn_lock_direction), rs.vals,
                                       rs.last_valid_error, FALSE, FALSE)]
        /\ UNCHANGED <<pidVars, aobs, seqVars, fk, dobs, enc, ft>>

\* an iteration that triggers a hard turn: lines 181-185
TtTriggerTick(raw, raw_mem, d) ==
    LET rs  == ReadLineState(arr, tt.last_valid_error, raw, raw_mem)
        dir == TriggerDir(rs.vals)
    IN  /\ tt.pc = "run" /\ tt.ticks < MaxTtTicks
        /\ ~LockHolds(tt.turn_lock_until)
        /\ dir # 0
        /\ arr' = rs.arr
        /\ tt' = [TtElapse([tt EXCEPT !.turn_lock_until = HARD_TURN_DURATION,
                                      !.trig_age = 0], d) EXCEPT
                     !.last_time_age = d,
                     !.last_valid_error = rs.last_valid_error,
                     !.turn_lock_direction = dir,
                     !.trig_dir = dir,
                     !.ob = TtObserved("trigger", PivotCmd(dir), rs.vals,
                                       rs.last_valid_error, FALSE, TRUE)]
        /\ UNCHANGED <<pidVars, aobs, seqVars, fk, dobs, enc, ft>>

\* an iteration on a lost line: lines 187-189
TtLostTick(raw, raw_mem, d) ==
    LET rs == ReadLineState(arr, tt.last_valid_error, raw, raw_mem)
    IN  /\ tt.pc = "run" /\ tt.ticks < MaxTtTicks
        /\ ~LockHolds(tt.turn_lock_until)
        /\ TriggerDir(rs.vals) = 0
        /\ rs.is_lost
        /\ arr' = rs.arr
        /\ tt' = [TtElapse(tt, d) EXCEPT
                     !.last_time_age = d,
                     !.last_valid_error = rs.last_valid_error,
                     !.ob = TtObserved("lost", PivotCmd(LostDir(rs.last_valid_error)), rs.vals,
                                       rs.last_valid_error, FALSE, FALSE)]
        /\ UNCHANGED <<pidVars, aobs, seqVars, fk, dobs, enc, ft>>

\* an iteration that steers: line 191, pid_drive with the pins raw_err
TtPidTick(raw, raw_mem, raw_err, d) ==
    LET rs == ReadLineState(arr, tt.last_valid_error, raw, raw_mem)
        ge == GetLineError(rs.arr, raw_err)
        pu == PIDUpdate(pid, 0, ge.ret, tt.last_time_age)
    IN  /\ tt.pc = "run" /\ tt.ticks < MaxTtTicks
        /\ ~LockHolds(tt.turn_lock_until)
        /\ TriggerDir(rs.vals) = 0
        /\ ~rs.is_lost
        /\ arr' = ge.arr
        /\ pid' = pu.pid
        /\ tt' = [TtElapse(tt, d) EXCEPT
                     !.last_time_age = d,
                     !.last_valid_error = rs.last_valid_error,
                     !.ob = TtObserved("pid",
                                       TtCmd("set_speeds", TT_BASE_SPEED - pu.out,
                                             TT_BASE_SPEED + pu.out),
                                       rs.vals, rs.last_valid_error, TRUE, FALSE)]
        /\ UNCHANGED <<ref, obs, aobs, seqVars, fk, dobs, enc, ft>>

NextTt ==
    \/ \E p \in TtPauseTimes : TtPauseTick(p)
    \/ \E raw \in TtFrames, d \in TtDurations :
         \E raw_mem \in MemFrames(raw) :
            \/ TtLockTick(raw, raw_mem, d)
            \/ TtTriggerTick(raw, raw_mem, d)
            \/ TtLostTick(raw, raw_mem, d)
            \/ \E raw_err \in TtRereadFrames(raw) : TtPidTick(raw, raw_mem, raw_err, d)

SpecTt == InitTt /\ [][NextTt]_vars

(***************************************************************************)
(* run_fork_test: the loop of the fork test, fork.py 152-214               *)
(***************************************************************************)
\* how long one iteration takes: 2 ms, 0.1 s
FtDurations == { 20, 1000 }

\* run_fork_test is called with a driver and a sensor array
InitForkTest ==
    /\ pid = PIDNew(FT_KP, FT_KI, FT_KD, FALSE, 0)
    /\ ref = PIDNew(0, 0, 0, FALSE, 0)
    /\ obs = NoCall
    /\ \E lh \in BOOLEAN : arr = ArrNew(lh, FALSE, 0)
    /\ aobs = NoArrCall
    /\ SeqIdle
    /\ fk = ForkIdle
    /\ dobs = NoDrvCall
    /\ enc = EncIdle
    /\ tt = TtIdle
    /\ ft = FtStart

\* reading a local that is unbound raises UnboundLocalError; the handler of
\* line 213 catches KeyboardInterrupt only, so the function is left without
\* a motor command
FtRaise(is_intersection, name) ==
    /\ ft' = [ft EXCEPT !.pc = "raised", !.iterations = @ + 1,
                        !.ob = [branch |-> "raise", is_intersection |-> is_intersection,
                                unassigned |-> name]]
    /\ UNCHANGED <<pid, drv>>

\* lines 166-204 up to the first maneuver: stop, then the maneuvers and the
\* choice of a path run with the loop suspended
FtHandle ==
    /\ drv' = Stop(drv)
    /\ ft' = [ft EXCEPT !.pc = "maneuver", !.iterations = @ + 1,
                        !.ob = [branch |-> "handle", is_intersection |-> TRUE,
                                unassigned |-> "none"]]
    /\ UNCHANGED pid

\* lines 206-211, "PID CONTROL", with the pins raw_err at get_line_error()
FtPid(a, is_intersection, raw_err, rpm, d) ==
    LET ge == GetLineError(a, raw_err)
        pu == PIDUpdate(pid, 0, ge.ret, ft.last_time_age)
        d1 == SetSpeeds(drv, FT_BASE_SPEED - pu.out, FT_BASE_SPEED + pu.out, rpm, rpm)
    IN  /\ pid' = pu.pid
        /\ drv' = DrvElapse(d1, d)
        /\ ft' = [ft EXCEPT !.iterations = @ + 1,
                            !.last_time_bound = TRUE, !.last_time_age = d,
                            !.ob = [branch |-> "pid", is_intersection |-> is_intersection,
                                    unassigned |-> "none"]]

\* one iteration of "while True" for the pins raw
ForkTestTick(raw, raw_err, rpm, d) ==
    LET rc == ReadCalibrated(arr, raw)
        is_intersection == FtIsIntersection(rc.vals)
    IN  /\ ft.pc = "run"
        /\ IF is_intersection /\ ~ft.last_marker_bound
           THEN arr' = rc.arr /\ FtRaise(TRUE, "last_marker_time")
           ELSE IF is_intersection /\ ft.last_marker_age > MARKER_DEBOUNCE
           THEN arr' = rc.arr /\ FtHandle
           ELSE IF ~ft.last_time_bound
           THEN arr' = rc.arr /\ FtRaise(is_intersection, "last_time")
           ELSE /\ arr' = GetLineError(rc.arr, raw_err).arr
                /\ FtPid(rc.arr, is_intersection, raw_err, rpm, d)
        /\ UNCHANGED <<ref, obs, aobs, sq, sobs, fk, dobs, enc, tt>>

NextForkTest ==
    \E raw \in AllRawFrames, raw_err \in RawFrames, rpm \in RpmReadings, d \in FtDurations :
        ForkTestTick(raw, raw_err, rpm, d)

SpecForkTest == InitForkTest /\ [][NextForkTest]_vars

----
\* C1: after every update() the accumulated integral lies within
\* [-integral_limit, +integral_limit] whenever a limit is configured.
C1_IntegralWithinLimit ==
    pid.has_limit =>
        /\ -pid.integral_limit <= pid.integral
        /\ pid.integral <= pid.integral_limit

\* the clamp has acted on both sides: the integral sits on the negative limit
\* after at least two updates
C1_Witness ==
    /\ pid.has_limit /\ pid.integral_limit > 0
    /\ obs.calls >= 2
    /\ pid.integral = -pid.integral_limit

\* C2: the first update() after construction or reset(), and every update()
\* with dt <= 0, returns kp*error + ki*integral (no derivative term); every
\* other update() returns that plus kd*(error - e_prev)/dt, where e_prev is the
\* error of the immediately preceding call, whether or not that call's
\* derivative was suppressed.
C2_DerivativeRule ==
    obs.calls >= 1 =>
        LET error == obs.setpoint - obs.measurement
            e_prev == obs.prev_setpoint - obs.prev_measurement
            deriv == IF obs.calls = 1 \/ obs.dt <= 0 THEN 0
                     ELSE Div(error - e_prev, obs.dt)
        IN  obs.out = Mul(pid.kp, error) + Mul(pid.ki, pid.integral)
                        + Mul(pid.kd, deriv)

\* a real derivative taken right after a call whose derivative was suppressed
\* by dt <= 0, with a derivative term that is not zero
C2_Witness ==
    /\ obs.calls >= 3
    /\ obs.prev_dt <= 0
    /\ obs.dt > 0
    /\ obs.setpoint - obs.measurement # obs.prev_setpoint - obs.prev_measurement
    /\ obs.prev_setpoint # obs.prev_measurement
    /\ obs.out # Mul(pid.kp, obs.setpoint - obs.measurement) + Mul(pid.ki, pid.integral)

\* C3: after reset(), pid answers every call exactly as a freshly constructed
\* PID with the same arguments does, and reset() leaves the gains and the limit
\* as they were.
C3_ResetIsFresh ==
    /\ obs.out = obs.ref_out
    /\ pid = ref

\* a replay after a reset that followed a non-trivial history
C3_Witness ==
    /\ obs.total >= 3
    /\ obs.calls >= 1 /\ obs.calls < obs.total
    /\ obs.out # 0
    /\ pid.integral # 0

\* C4 as stated: get_line_error() on a frame with no active sensor returns
\* the value the previous get_line_error() call returned (0.0 when there was
\* none), whatever the configuration, smoothing included.
C4_LostReturnsPrevious ==
    (aobs.op = "error" /\ aobs.lost) => aobs.ret = aobs.prev_ret

\* C4 (amended): on a frame with no active sensor, get_line_error() without
\* smoothing returns the value its previous call returned (0.0 when there was
\* none); with ema_alpha = a it returns a*e + (1-a)*previous return, where e is
\* the raw error of the latest frame that had an active sensor (0.0 when there
\* was none), so it moves toward e and never toward 0.0.
C4_LostIsSticky ==
    (aobs.op = "error" /\ aobs.lost) =>
        IF arr.has_ema
        THEN aobs.ret = Mul(arr.ema_alpha, aobs.last_valid)
                          + Mul(ONE - arr.ema_alpha, aobs.prev_ret)
        ELSE aobs.ret = aobs.prev_ret

\* a lost frame right after a call that returned an error that is not zero
C4_Witness ==
    /\ aobs.op = "error" /\ aobs.lost
    /\ aobs.prev_ret # 0
    /\ aobs.last_valid # 0

RECURSIVE SetSum(_)
SetSum(S) == IF S = {} THEN 0
             ELSE LET x == CHOOSE y \in S : TRUE IN x + SetSum(S \ {x})

\* the sensors of the latest frame that read black, by position 1..8
ActiveSet == { i \in Sensors : aobs.raw[i] = arr.line_high }
\* position i weighs i-5 on the left half and i-4 on the right half
ActiveWeightSum == SetSum(ActiveSet) - 5 * Cardinality(ActiveSet)
                     + Cardinality(ActiveSet \cap {5, 6, 7, 8})

\* C5: without smoothing, on every frame with an active sensor
\* get_line_error() is the mean weight of the active sensors divided by 4 (to
\* within the rounding of two divisions), lies in [-1.0, 1.0], is exactly 0.0
\* on a mirror-symmetric frame, -1.0 on leftmost-only and +1.0 on
\* rightmost-only.
C5_WeightedCentroid ==
    (aobs.op = "error" /\ ~aobs.lost /\ ~arr.has_ema) =>
        LET d == Cardinality(ActiveSet)
            n == ActiveWeightSum
        IN  /\ Abs(4 * d * aobs.ret - n * ONE) < 5 * d
            /\ -ONE <= aobs.ret /\ aobs.ret <= ONE
            /\ (\A i \in Sensors : (i \in ActiveSet) <=> (9 - i \in ActiveSet))
                  => aobs.ret = 0
            /\ ActiveSet = {1} => aobs.ret = -ONE
            /\ ActiveSet = {8} => aobs.ret = ONE

\* an asymmetric frame of three active sensors, whose mean is no decimal
C5_Witness ==
    /\ aobs.op = "error" /\ ~aobs.lost /\ ~arr.has_ema
    /\ ActiveSet = {1, 2, 4}
    /\ aobs.ret = -6666

\* C6 as stated: with required_hits = N, fewer than N consecutive bar frames
\* never give True, and a run of consecutive bar frames gives True exactly
\* once, however long it goes on.
C6_FiresOncePerRun ==
    aobs.op = "confirm" =>
        /\ aobs.run < aobs.required_hits => ~aobs.confirmed /\ aobs.fires = 0
        /\ aobs.run >= aobs.required_hits => aobs.fires = 1

\* C6 (amended): the counter is the length of the current run of consecutive
\* bar frames (0 after any non-bar frame or reset_bar_detector()); the result
\* is False on the first N-1 frames of a run and True on the N-th and on every
\* later frame of the same run, so a run of exactly N frames gives True once.
C6_LevelTriggered ==
    /\ arr.bar_hits = aobs.run
    /\ aobs.op = "confirm" =>
          /\ aobs.confirmed <=> aobs.run >= aobs.required_hits
          /\ aobs.fires = Max(0, aobs.run - aobs.required_hits + 1)

\* the detector has just fired on the N-th frame of a run
C6_Witness ==
    /\ aobs.op = "confirm"
    /\ aobs.run = aobs.required_hits
    /\ aobs.confirmed /\ aobs.fires = 1

\* C7: in every loop iteration that reads the sensors the bar counter goes up
\* by exactly 1 on a bar frame and down by exactly 1, floored at 0, on any
\* other frame; a non-bar frame takes a counter k >= 1 to 0 only when k = 1;
\* and the counter keeps that value unless the iteration confirms a bar.
C7_LeakyBucket ==
    sobs.branch \notin {"none", "kill"} =>
        /\ sobs.hits_mid = IF sobs.is_bar THEN sobs.hits_before + 1
                           ELSE Max(sobs.hits_before - 1, 0)
        /\ (~sobs.is_bar /\ sobs.hits_before >= 1 /\ sobs.hits_mid = 0)
              => sobs.hits_before = 1
        /\ sobs.branch \in {"follow", "gap_stop", "gap_blind"}
              => sq.bar_hits = sobs.hits_mid

\* a non-bar frame among bar frames: the counter leaks from 3 to 2
C7_Witness ==
    /\ sobs.branch \in {"follow", "gap_stop", "gap_blind"}
    /\ ~sobs.is_bar
    /\ sobs.hits_before = 3 /\ sobs.hits_mid = 2

\* C8: in an iteration where no bar is confirmed, the frame is below the gap
\* threshold and the segment disallows gaps, the one call on the motor port is
\* set_speeds(0, 0) and it leaves zero duty on both PWM channels.
C8_GapStopAppliesZero ==
    sobs.branch = "gap_stop" =>
        /\ Len(sobs.cmds) = 1
        /\ sobs.cmds[1].op = "set_speeds"
        /\ sobs.cmds[1].left = 0 /\ sobs.cmds[1].right = 0
        /\ sobs.cmds[1].pwm_l = 0 /\ sobs.cmds[1].pwm_r = 0

\* C9: after the frames normal, bar x 4, normal, read from the start of a run
\* whose first two segments have no maneuver, the sequencer has advanced its
\* segment index exactly once.
C9_ScenarioAdvancesOnce ==
    sobs.scen = 6 => (sobs.advances = 1 /\ sq.track_index = 1)

\* C10: force_align_and_cross called with a came_from that is none of LEFT,
\* RIGHT, CENTER raises and makes no call on the motor port.
C10_BadDirectionRaises ==
    (fk.fn = "force_align_and_cross" /\ fk.came_from \notin ForkChoices) =>
        (fk.raised /\ fk.cmds = <<>>)

\* C11: every maneuver the sequencer invokes on entering a segment hands
\* control back to the loop: the run is never left aborted inside the call of
\* a segment's action.
C11_ManeuverReturnsControl == sq.pc # "crashed"

AllStops(cmds) == Len(cmds) >= 1 /\ \A k \in 1..Len(cmds) : cmds[k].op = "stop"

C13_KillStops ==
    [][ /\ (sq.pc = "run" /\ sq'.pc = "stopped") =>
              /\ sobs'.branch = "kill"
              /\ AllStops(sobs'.cmds)
              /\ \A k \in 1..Len(sobs'.cmds) :
                    sobs'.cmds[k].pwm_l = 0 /\ sobs'.cmds[k].pwm_r = 0
              /\ drv'.pwm_l = 0 /\ drv'.pwm_r = 0
              /\ arr' = arr /\ pid' = pid
              /\ sq'.track_index = sq.track_index /\ sq'.bar_hits = sq.bar_hits
        /\ sq.pc = "stopped" => UNCHANGED vars ]_vars

\* the button is pressed after the robot has started driving
C13_Witness ==
    /\ sq.pc = "stopped" /\ sq.seg_ticks >= 1
    /\ sobs.branch = "kill" /\ AllStops(sobs.cmds)
    /\ drv.pwm_l = 0 /\ drv.pwm_r = 0

\* what a call leaves on the motor pins and in the two rate PIDs
DrvEffect(d) == <<d.dir_l, d.pwm_l, d.dir_r, d.pwm_r, d.pid_l, d.pid_r>>

\* C14: from every driver state, and whatever the encoders report, stop() and
\* set_speeds(0, 0) leave the same direction and duty on both motors and the
\* same state in both rate PIDs.
C14_StopIsZeroSpeeds ==
    \A rpm \in RpmReadings, t \in CallGaps :
        DrvEffect(Stop(DrvElapse(drv, t)))
            = DrvEffect(SetSpeeds(DrvElapse(drv, t), 0, 0, rpm, rpm))

\* C15: every set_speeds call gives each rate PID a target of magnitude at
\* most MAX_RPM and uses a feed-forward term of magnitude at most 1.0.
C15_ArgumentsClamped ==
    dobs.op = "set_speeds" =>
        /\ Abs(dobs.target_l) <= MAX_RPM /\ Abs(dobs.target_r) <= MAX_RPM
        /\ Abs(dobs.ff_l) <= ONE /\ Abs(dobs.ff_r) <= ONE

\* the profile written for a segment, by the segment's name
SegmentProfile(name) ==
    IF name = "SERPENTINE" THEN serpentine_get_params ELSE straight_away_get_params

\* C17: once a transition has been made, every steering iteration in a
\* SERPENTINE or STRAIGHTAWAY segment runs the steering PID with the gains of
\* that segment's profile and commands speeds around the profile's base speed.
C17_SegmentProfileUsed ==
    (/\ sobs.branch = "follow" /\ sobs.advances >= 1
     /\ Track(sq.current_track).name \in {"SERPENTINE", "STRAIGHTAWAY"}) =>
        LET p == SegmentProfile(Track(sq.current_track).name)
        IN  /\ pid.kp = p.kp /\ pid.ki = p.ki /\ pid.kd = p.kd
            /\ sobs.cmds[1].left + sobs.cmds[1].right = 2 * p.speed

C18_RangeOnlyWidens ==
    [][ /\ \A i \in Sensors : /\ arr'.min_vals[i] <= arr.min_vals[i]
                              /\ arr'.max_vals[i] >= arr.max_vals[i]
        /\ aobs'.op = "read" =>
              aobs'.vals = [i \in Sensors |->
                              IF aobs'.raw[i] = arr'.line_high THEN 1 ELSE 0] ]_vars

\* sensor 1 has been read both white and black, its range is the full [0, 1];
\* sensor 8 has only ever shown one value
C18_Witness ==
    /\ aobs.op = "read" /\ aobs.reads >= 2
    /\ arr.min_vals[1] = 0 /\ arr.max_vals[1] = 1
    /\ arr.min_vals[8] = arr.max_vals[8]

\* C19: the dt of every steering iteration, the one it passes to the steering
\* PID's update(), is at least 0 and at most MAX_DT.
C19_DtClamped ==
    sobs.branch = "follow" => (0 <= sobs.dt /\ sobs.dt <= MAX_DT)

\* a steering iteration that follows a slow one, after a clearing drive: the
\* measured dt was above MAX_DT and MAX_DT is what the PID got
C19_Witness ==
    /\ sobs.branch = "follow" /\ sobs.dt = MAX_DT
    /\ sobs.advances >= 1

\* C20: a steering iteration makes exactly one call on the motor port,
\* set_speeds(BASE_SPEED - c, BASE_SPEED + c) with |c| <= MAX_CORRECTION: the
\* two speeds add up to 2 * BASE_SPEED and differ by at most 2 * MAX_CORRECTION.
C20_CorrectionBounded ==
    sobs.branch = "follow" =>
        /\ Abs(sobs.correction) <= MAX_CORRECTION
        /\ Len(sobs.cmds) = 1 /\ sobs.cmds[1].op = "set_speeds"
        /\ sobs.cmds[1].left = BASE_SPEED - sobs.correction
        /\ sobs.cmds[1].right = BASE_SPEED + sobs.correction
        /\ sobs.cmds[1].left + sobs.cmds[1].right = 2 * BASE_SPEED
        /\ Abs(sobs.cmds[1].right - sobs.cmds[1].left) <= 2 * MAX_CORRECTION

\* the line jumps under sensor 6: the derivative term saturates the correction
\* at -MAX_CORRECTION
C20_Witness ==
    /\ sobs.branch = "follow" /\ sobs.correction = -MAX_CORRECTION
    /\ sobs.cmds[1].left = BASE_SPEED + MAX_CORRECTION
    /\ sobs.cmds[1].right = BASE_SPEED - MAX_CORRECTION

\* the rate for pulses over dt, multiplying before dividing
ExpectedRpm(pulses, dt) == Div(pulses * 60 * ONE, Mul(COUNTS_PER_REV * ONE, dt))

\* C21: a read that finds no new pulse returns 0 when more than the timeout
\* has passed since the last read that found one, and the previously returned
\* rate otherwise; a read that finds pulses returns pulses / counts_per_rev /
\* dt * 60 for the time dt since the last read that found one (to within the
\* rounding of the division, 1 part in 500).
C21_ReadRpm ==
    enc.ob.reads >= 1 =>
        /\ (enc.ob.pulses = 0 /\ enc.ob.dt > ENC_TIMEOUT) => enc.ob.ret = 0
        /\ (enc.ob.pulses = 0 /\ enc.ob.dt <= ENC_TIMEOUT) => enc.ob.ret = enc.ob.prev_ret
        /\ enc.ob.pulses > 0 =>
              500 * Abs(enc.ob.ret - ExpectedRpm(enc.ob.pulses, enc.ob.dt))
                 <= ExpectedRpm(enc.ob.pulses, enc.ob.dt)

\* the wheel has stopped: a read 600 ms after the last pulse drops a nonzero
\* rate to 0
C21_Witness ==
    /\ enc.ob.pulses = 0 /\ enc.ob.dt > ENC_TIMEOUT
    /\ enc.ob.prev_ret > 0 /\ enc.ob.ret = 0

\* the line error of the frame a loop iteration classified (pins raw, black =
\* high), for a frame with at least one black sensor
FrameError(raw) ==
    LET vals == [i \in Sensors |-> IF raw[i] THEN 1 ELSE 0]
    IN  Div(Div(WeightedNum(vals) * ONE, ActiveDen(vals) * ONE), 4 * ONE)

\* C22: in a steering iteration the error given to the steering PID is the
\* line error of the one frame the iteration read and classified.
C22_OneFramePerTick ==
    sobs.branch = "follow" => -pid.prev_error = FrameError(sobs.raw)

\* C23: standard_align, force_align_and_cross and turn_180 hand control back
\* with the vehicle stopped: whether the maneuver left its loop by its
\* condition or by its timeout, the last motor command it issued is stop() and
\* both duty cycles are zero.
C23_ManeuverEndsStopped ==
    (/\ fk.pc \in {"returned", "choose"}
     /\ fk.fn \in {"standard_align", "force_align_and_cross", "turn_180"})
        => /\ Len(fk.cmds) >= 1
           /\ fk.cmds[Len(fk.cmds)].op = "stop"
           /\ drv.pwm_l = 0 /\ drv.pwm_r = 0

\* standard_align wiggled until its timeout and has returned
C23_Witness ==
    /\ fk.pc = "returned" /\ fk.fn = "standard_align"
    /\ fk.exit = "timeout" /\ Len(fk.cmds) >= 2
    /\ fk.cmds[Len(fk.cmds) - 1].op = "set_speeds"

\* the number of pivot commands force_align_and_cross issues for came_from
PivotCount(came_from) == IF came_from \in {"LEFT", "RIGHT"} THEN 1 ELSE 0

\* C24: force_align_and_cross pivots left iff came_from is LEFT and right iff
\* it is RIGHT, then stops, then commands forward and issues nothing else while
\* the jolt lasts; it returns, after a final stop, only on a frame with no
\* sensor above 0.5 or when 1.0 s have elapsed.
C24_PivotStopJolt ==
    (fk.fn = "force_align_and_cross") =>
        LET c == fk.cmds
            k == PivotCount(fk.came_from)
        IN  /\ Len(c) >= k + 2
            /\ fk.came_from = "LEFT" <=>
                  (c[1].op = "set_speeds" /\ c[1].left = -PIVOT_SPEED /\ c[1].right = PIVOT_SPEED)
            /\ fk.came_from = "RIGHT" <=>
                  (c[1].op = "set_speeds" /\ c[1].left = PIVOT_SPEED /\ c[1].right = -PIVOT_SPEED)
            /\ c[k + 1].op = "stop"
            /\ c[k + 2].op = "set_speeds"
            /\ c[k + 2].left = JOLT_SPEED /\ c[k + 2].right = JOLT_SPEED
            /\ fk.pc = "jolt" => Len(c) = k + 2
            /\ fk.pc = "returned" =>
                  /\ Len(c) = k + 3 /\ c[k + 3].op = "stop"
                  /\ fk.clear \/ fk.jolt_age >= JOLT_TIMEOUT

\* a return from the RIGHT branch: the jolt saw the marker for a pass and then
\* read an all-white frame
C24_Witness ==
    /\ fk.fn = "force_align_and_cross" /\ fk.came_from = "RIGHT"
    /\ fk.pc = "returned" /\ fk.clear
    /\ fk.jolt_age > 0 /\ fk.jolt_age < JOLT_TIMEOUT

\* C25: fork_return_action run before any do_fork_action defaults the choice
\* to CENTER and goes on to force_align_and_cross without raising.
C25_DefaultsToCenter ==
    (fk.wrapper = "fork_return_action" /\ fk.calls = 0) =>
        (~fk.raised /\ fk.fn = "force_align_and_cross" /\ fk.came_from = "CENTER")

\* the branches of step 5: the iteration confirmed a bar
BarBranches == {"transition", "crash", "action", "complete"}
\* the branches of step 6
DriveBranches == {"follow", "gap_stop", "gap_blind"}

\* C26: the sequencer transitions exactly on the tick where its bar-hit
\* counter reaches BAR_HITS_REQUIRED: a tick that takes step 5 has that many
\* hits, and a tick that drives has fewer.
C26_TransitionsAtRequiredHits ==
    /\ sobs.branch \in BarBranches => sobs.hits_mid = BAR_HITS_REQUIRED
    /\ sobs.branch \in DriveBranches => sobs.hits_mid < BAR_HITS_REQUIRED

\* C27: the blind clearing drive lasts START_CLEAR_TIME when the segment left
\* is the first of TRACK_SEQUENCE and BAR_CLEAR_TIME when it is a later one.
C27_ClearTimeBySegment ==
    (sobs.branch \in BarBranches \ {"complete"}) =>
        sobs.blind_time = IF sq.track_index = 1 THEN START_CLEAR_TIME ELSE BAR_CLEAR_TIME

\* what run_line_follower does in an iteration that is not paused: inside the
\* window of a hard turn the pivot of that turn and nothing else; outside it
\* a hot edge triggers (left first), else a lost line spins by the sign of the
\* last valid error, else the PID steers
TtIterationRule ==
    LET o == tt.ob
        left_hot == o.vals[1] * ONE > CORNER_SENSITIVITY
        right_hot == o.vals[8] * ONE > CORNER_SENSITIVITY
        all_white == \A i \in Sensors : o.vals[i] * ONE < ALL_WHITE_THRESHOLD
    IN  IF o.in_window
        THEN /\ o.branch = "lock" /\ o.cmd = PivotCmd(o.window_dir)
             /\ ~o.pid_updated /\ ~o.retriggered
        ELSE IF left_hot
        THEN o.branch = "trigger" /\ o.cmd = PivotCmd(-1) /\ ~o.pid_updated
        ELSE IF right_hot
        THEN o.branch = "trigger" /\ o.cmd = PivotCmd(1) /\ ~o.pid_updated
        ELSE IF all_white
        THEN /\ o.branch = "lost" /\ ~o.pid_updated
             /\ o.last_valid_error < 0 => o.cmd = PivotCmd(-1)
             /\ o.last_valid_error > 0 => o.cmd = PivotCmd(1)
        ELSE o.branch = "pid" /\ o.pid_updated /\ o.cmd.op = "set_speeds"

\* C28 as stated: every iteration of the T-turn follower inside the window of
\* a hard turn commands the pivot of that turn, with no PID update and no new
\* trigger; every iteration outside it takes trigger, then lost-line spin,
\* then PID steering.
C28_EveryIteration == tt.ob.branch # "none" => TtIterationRule

\* C28 amended: the same for every iteration that does not find the pause
\* button pressed; a paused iteration stops the motors and resets the PID,
\* inside a lock as well.
C28_UnpausedIteration ==
    /\ tt.ob.branch \notin {"none", "pause"} => TtIterationRule
    /\ tt.ob.branch = "pause" => tt.ob.cmd.op = "stop" /\ ~tt.ob.pid_updated

\* the second iteration inside a left lock, with the right edge sensor hot
C28_Witness ==
    /\ tt.ob.branch = "lock" /\ tt.ob.in_window /\ tt.ob.window_dir = -1
    /\ tt.ob.vals[8] = 1 /\ tt.ob.vals[1] = 0
    /\ tt.ob.cmd = PivotCmd(-1)
    /\ tt.trig_age >= 2 * 1000

\* C29: the bar-hit counter stays within 0..5, the threshold of step 5, and
\* the iteration after a transition starts with the counter at 0 and the
\* steering PID reset (no integral, no previous error, first call pending).
C29_HitsBoundedAndReset ==
    /\ sq.bar_hits >= 0 /\ sq.bar_hits <= TRANSITION_HITS
    /\ sobs.branch = "transition" =>
          /\ sq.bar_hits = 0
          /\ pid.integral = 0 /\ pid.prev_error = 0 /\ pid.first
          /\ sq.pc = "run"

\* a transition taken after the PID has steered: five bar frames in a row
\* counted up to the threshold
C29_Witness ==
    /\ sobs.branch = "transition" /\ sobs.hits_before = TRANSITION_HITS - 1
    /\ sobs.hits_mid = TRANSITION_HITS /\ sq.bar_hits = 0
    /\ sq.track_index = 1 /\ pid = PIDNew(KP, KI, KD, FALSE, 0)

\* every lookup of TRACK_SEQUENCE is in range, the index counts the confirmed
\* bars, and the run is complete when the index equals the length of the list
C30_InRange ==
    /\ sq.current_track >= 0 /\ sq.current_track < sq.ntracks
    /\ sq.pc = "run" => sq.current_track = sq.track_index
    /\ sobs.advances = sq.track_index
    /\ sq.pc = "done" <=> sq.track_index = sq.ntracks

\* the index moves by +1, on an iteration that read a bar and confirmed it
C30_Steps ==
    \/ sq'.track_index = sq.track_index
    \/ /\ sq'.track_index = sq.track_index + 1
       /\ sobs'.branch \in BarBranches
       /\ sobs'.is_bar /\ sobs'.hits_mid >= TRANSITION_HITS

C31_TimingStateAssigned ==
    ft.iterations >= 1 => (ft.pc # "raised" /\ ft.ob.unassigned = "none")

====
